---- MODULE Spec2Model ----
(***************************************************************************)
(* Model of redis_cache: the @cache cache-aside decorator (cache.py), the  *)
(* clear_cache invalidator (clear.py) and RedisCacheInit (client.py), over *)
(* the aiocache RedisCache adapter that client.py configures.              *)
(*                                                                         *)
(* Python values are written as their repr text ("None", "1", "(1, 2)"),   *)
(* JSON documents as their text, cache keys as the strings the code        *)
(* builds.  Suspension points (await) separate the steps of a call.        *)
(***************************************************************************)
EXTENDS Integers, Sequences, FiniteSets, TLC

\* Python's None, as its repr.
None == "None"

\* The aiocache adapter object that caches.get("default") returns (client.py:27).
Adapter == "RedisCache"

\* Truthiness of an Optional[str] setting, as tested by `if key:` and
\* `if namespace:` (cache.py:45,50; clear.py:25,30,34): None and "" are falsy.
Truthy(s) == s # None /\ s # ""

(***************************************************************************)
(* Key derivation (cache.py:16-26)                                         *)
(***************************************************************************)

\* Names filtered out of kwargs (cache.py:21).
IgnoredNames == {"db", "s3_client_public", "s3_client", "qdrant_db"}

\* Mutation: None-valued keyword arguments are kept.
clean_kwargs_keep_none(kwargs) ==
    SelectSeq(kwargs, LAMBDA p : p[1] \notin IgnoredNames)

\* kwargs is the call's keyword dict, in insertion order, as a sequence of
\* <<name, value>> pairs; the comprehension keeps that order (cache.py:18-23).
clean_kwargs(kwargs) ==
    SelectSeq(kwargs, LAMBDA p : p[1] \notin IgnoredNames /\ p[2] # None)

RECURSIVE JoinComma(_)
\* ", ".join(items)
JoinComma(items) ==
    IF items = <<>> THEN ""
    ELSE IF Len(items) = 1 THEN items[1]
    ELSE items[1] \o ", " \o JoinComma(Tail(items))

\* repr of the positional tuple: "()", "(1,)", "(1, None)" (cache.py:24, {args}).
TupleRepr(args) ==
    IF Len(args) = 1 THEN "(" \o args[1] \o ",)"
    ELSE "(" \o JoinComma(args) \o ")"

\* repr of a dict with str keys, in insertion order (cache.py:24, {clean_kwargs}).
DictRepr(kw) ==
    "{" \o JoinComma([i \in 1..Len(kw) |-> "'" \o kw[i][1] \o "': " \o kw[i][2]]) \o "}"

\* raw = f"{args}:{clean_kwargs}" (cache.py:24).
RawKey(args, kwargs) == TupleRepr(args) \o ":" \o DictRepr(clean_kwargs(kwargs))

\* hashlib.md5(raw.encode()).hexdigest()[:12] (cache.py:25), tabulated with
\* hashlib for the repr of every positional tuple over (a, db) and every
\* keyword dict of up to two entries among a, b, db used below.
Md5Table ==
    {
      <<"():{}", "5f2ba5f49842">>,
      <<"():{'a': 1}", "00b99c320fc0">>,
      <<"():{'a': 2}", "29abda7cabdb">>,
      <<"():{'a': None}", "7faf64f84eae">>,
      <<"():{'b': 1}", "903dc4f8d071">>,
      <<"():{'b': 2}", "7e24b65a88df">>,
      <<"():{'b': None}", "f7c09ad3c67c">>,
      <<"():{'db': None}", "e87c5e096cf2">>,
      <<"():{'db': <db1>}", "82c47641673c">>,
      <<"():{'db': <db2>}", "3f25b444bdc8">>,
      <<"():{'a': 1, 'b': 1}", "b94199315dba">>,
      <<"():{'a': 1, 'b': 2}", "7b1d08e52c05">>,
      <<"():{'a': 1, 'b': None}", "c9dc6d29967c">>,
      <<"():{'a': 2, 'b': 1}", "c67dc54186be">>,
      <<"():{'a': 2, 'b': 2}", "9cb30e9c2c46">>,
      <<"():{'a': 2, 'b': None}", "b0034b486253">>,
      <<"():{'a': None, 'b': 1}", "f841c1ce7d97">>,
      <<"():{'a': None, 'b': 2}", "885ddc225c50">>,
      <<"():{'a': None, 'b': None}", "f8da5d2e1802">>,
      <<"():{'a': 1, 'db': None}", "df5ce5f79a61">>,
      <<"():{'a': 1, 'db': <db1>}", "988a158c3ad2">>,
      <<"():{'a': 1, 'db': <db2>}", "7909f425c497">>,
      <<"():{'a': 2, 'db': None}", "f17deda2ce5a">>,
      <<"():{'a': 2, 'db': <db1>}", "bcc142a1f6db">>,
      <<"():{'a': 2, 'db': <db2>}", "6ce7ac67c391">>,
      <<"():{'a': None, 'db': None}", "5a07b8db4599">>,
      <<"():{'a': None, 'db': <db1>}", "5d1c55a7e7f9">>,
      <<"():{'a': None, 'db': <db2>}", "a0729702820d">>,
      <<"():{'b': 1, 'a': 1}", "c2117f95e219">>,
      <<"():{'b': 1, 'a': 2}", "9240e6050a69">>,
      <<"():{'b': 1, 'a': None}", "e267b1800a64">>,
      <<"():{'b': 2, 'a': 1}", "66fed479bcf9">>,
      <<"():{'b': 2, 'a': 2}", "1047030346a2">>,
      <<"():{'b': 2, 'a': None}", "5b7b6ce64ca4">>,
      <<"():{'b': None, 'a': 1}", "bb0fa6d96da7">>,
      <<"():{'b': None, 'a': 2}", "ad7e3a17ec38">>,
      <<"():{'b': None, 'a': None}", "f039d5d9683b">>,
      <<"():{'b': 1, 'db': None}", "6df4fe7337e6">>,
      <<"():{'b': 1, 'db': <db1>}", "5e0e213433c6">>,
      <<"():{'b': 1, 'db': <db2>}", "0debcbcb68bc">>,
      <<"():{'b': 2, 'db': None}", "5bb7213f2ebd">>,
      <<"():{'b': 2, 'db': <db1>}", "0472cdecec90">>,
      <<"():{'b': 2, 'db': <db2>}", "db78055ecd35">>,
      <<"():{'b': None, 'db': None}", "ce4c87553793">>,
      <<"():{'b': None, 'db': <db1>}", "3bf7a6854d88">>,
      <<"():{'b': None, 'db': <db2>}", "7ce89949ee10">>,
      <<"():{'db': None, 'a': 1}", "908db3faa2fd">>,
      <<"():{'db': None, 'a': 2}", "612750892d34">>,
      <<"():{'db': None, 'a': None}", "7869e2069e96">>,
      <<"():{'db': <db1>, 'a': 1}", "3a90ef733b29">>,
      <<"():{'db': <db1>, 'a': 2}", "28a30ef225a3">>,
      <<"():{'db': <db1>, 'a': None}", "f47fb861a66e">>,
      <<"():{'db': <db2>, 'a': 1}", "97c23286afd1">>,
      <<"():{'db': <db2>, 'a': 2}", "f14d1fdc5fb5">>,
      <<"():{'db': <db2>, 'a': None}", "f99d8a705d4f">>,
      <<"():{'db': None, 'b': 1}", "99273331cc3f">>,
      <<"():{'db': None, 'b': 2}", "167a365f2932">>,
      <<"():{'db': None, 'b': None}", "d49d2c0698cf">>,
      <<"():{'db': <db1>, 'b': 1}", "276cad90ecff">>,
      <<"():{'db': <db1>, 'b': 2}", "7cc88c3b577b">>,
      <<"():{'db': <db1>, 'b': None}", "4b6927105820">>,
      <<"():{'db': <db2>, 'b': 1}", "22ba030b3da9">>,
      <<"():{'db': <db2>, 'b': 2}", "787f35f97e38">>,
      <<"():{'db': <db2>, 'b': None}", "97a3f7139e7d">>,
      <<"(1,):{}", "c538c318903b">>,
      <<"(1,):{'a': 1}", "ec37550fa8bc">>,
      <<"(1,):{'a': 2}", "624a468b7716">>,
      <<"(1,):{'a': None}", "b803616c46c4">>,
      <<"(1,):{'b': 1}", "9157272301ef">>,
      <<"(1,):{'b': 2}", "491ca966084a">>,
      <<"(1,):{'b': None}", "a3e551b882fd">>,
      <<"(1,):{'db': None}", "e8577d883727">>,
      <<"(1,):{'db': <db1>}", "4d5db98cb79c">>,
      <<"(1,):{'db': <db2>}", "c03e6300ac46">>,
      <<"(1,):{'a': 1, 'b': 1}", "2a94eac3aa38">>,
      <<"(1,):{'a': 1, 'b': 2}", "4c05571066ed">>,
      <<"(1,):{'a': 1, 'b': None}", "2427629e6e80">>,
      <<"(1,):{'a': 2, 'b': 1}", "95ce321b4a9b">>,
      <<"(1,):{'a': 2, 'b': 2}", "aa5ebe8b956e">>,
      <<"(1,):{'a': 2, 'b': None}", "7c00e93344fa">>,
      <<"(1,):{'a': None, 'b': 1}", "0b29f985bbb6">>,
      <<"(1,):{'a': None, 'b': 2}", "16a14cc459c2">>,
      <<"(1,):{'a': None, 'b': None}", "7f3bdd826fd7">>,
      <<"(1,):{'a': 1, 'db': None}", "17820b89d856">>,
      <<"(1,):{'a': 1, 'db': <db1>}", "6e85f74da40e">>,
      <<"(1,):{'a': 1, 'db': <db2>}", "6e834dc70aef">>,
      <<"(1,):{'a': 2, 'db': None}", "86f99ffc43b5">>,
      <<"(1,):{'a': 2, 'db': <db1>}", "58b2524e5744">>,
      <<"(1,):{'a': 2, 'db': <db2>}", "0ee645df3d89">>,
      <<"(1,):{'a': None, 'db': None}", "66e92b8e676a">>,
      <<"(1,):{'a': None, 'db': <db1>}", "b261e01828e9">>,
      <<"(1,):{'a': None, 'db': <db2>}", "31dd5dc82c43">>,
      <<"(1,):{'b': 1, 'a': 1}", "f1f80ff04ca2">>,
      <<"(1,):{'b': 1, 'a': 2}", "24b3c4cea305">>,
      <<"(1,):{'b': 1, 'a': None}", "f3bb12119c6b">>,
      <<"(1,):{'b': 2, 'a': 1}", "a2f4101ab4c3">>,
      <<"(1,):{'b': 2, 'a': 2}", "a11d2e91dc2a">>,
      <<"(1,):{'b': 2, 'a': None}", "4cef22af6c6b">>,
      <<"(1,):{'b': None, 'a': 1}", "ea66ea82d513">>,
      <<"(1,):{'b': None, 'a': 2}", "eb72aebc9846">>,
      <<"(1,):{'b': None, 'a': None}", "4c89f851dc05">>,
      <<"(1,):{'b': 1, 'db': None}", "e76e4b033cca">>,
      <<"(1,):{'b': 1, 'db': <db1>}", "30085f7e380e">>,
      <<"(1,):{'b': 1, 'db': <db2>}", "e54335de7ea2">>,
      <<"(1,):{'b': 2, 'db': None}", "d624d74459e8">>,
      <<"(1,):{'b': 2, 'db': <db1>}", "bb9740b98de5">>,
      <<"(1,):{'b': 2, 'db': <db2>}", "b1a770411fc5">>,
      <<"(1,):{'b': None, 'db': None}", "9cabafe7a1fc">>,
      <<"(1,):{'b': None, 'db': <db1>}", "1255f6233482">>,
      <<"(1,):{'b': None, 'db': <db2>}", "38fda8543448">>,
      <<"(1,):{'db': None, 'a': 1}", "b47fae31ad24">>,
      <<"(1,):{'db': None, 'a': 2}", "06ddb192ead9">>,
      <<"(1,):{'db': None, 'a': None}", "02f3a3632dac">>,
      <<"(1,):{'db': <db1>, 'a': 1}", "887845680848">>,
      <<"(1,):{'db': <db1>, 'a': 2}", "1f65c1cf498e">>,
      <<"(1,):{'db': <db1>, 'a': None}", "1efb71704ed4">>,
      <<"(1,):{'db': <db2>, 'a': 1}", "c510fddc5d96">>,
      <<"(1,):{'db': <db2>, 'a': 2}", "dc602e03ec16">>,
      <<"(1,):{'db': <db2>, 'a': None}", "6cf4c5fb167e">>,
      <<"(1,):{'db': None, 'b': 1}", "28b9e589d308">>,
      <<"(1,):{'db': None, 'b': 2}", "a7914579e4e0">>,
      <<"(1,):{'db': None, 'b': None}", "47f4b7852794">>,
      <<"(1,):{'db': <db1>, 'b': 1}", "5e3eecf762be">>,
      <<"(1,):{'db': <db1>, 'b': 2}", "ed5dd6e35db7">>,
      <<"(1,):{'db': <db1>, 'b': None}", "ad8b08cffabb">>,
      <<"(1,):{'db': <db2>, 'b': 1}", "9cb06af5e8f3">>,
      <<"(1,):{'db': <db2>, 'b': 2}", "b647e85ac790">>,
      <<"(1,):{'db': <db2>, 'b': None}", "f3ea15e25a03">>,
      <<"(2,):{}", "dc2be5455f15">>,
      <<"(2,):{'a': 1}", "70b86362fcb5">>,
      <<"(2,):{'a': 2}", "337518a9259a">>,
      <<"(2,):{'a': None}", "154fc5d80eba">>,
      <<"(2,):{'b': 1}", "423f43d775a6">>,
      <<"(2,):{'b': 2}", "14aca2c8b36f">>,
      <<"(2,):{'b': None}", "c50121504c3b">>,
      <<"(2,):{'db': None}", "b9ac2bca6d57">>,
      <<"(2,):{'db': <db1>}", "7d223e157774">>,
      <<"(2,):{'db': <db2>}", "66908138ae4e">>,
      <<"(2,):{'a': 1, 'b': 1}", "868327abcf63">>,
      <<"(2,):{'a': 1, 'b': 2}", "6b81cba96d72">>,
      <<"(2,):{'a': 1, 'b': None}", "07b4f2e53681">>,
      <<"(2,):{'a': 2, 'b': 1}", "a419db58a5a4">>,
      <<"(2,):{'a': 2, 'b': 2}", "6e07b5cae6c9">>,
      <<"(2,):{'a': 2, 'b': None}", "6bb96e2d98aa">>,
      <<"(2,):{'a': None, 'b': 1}", "75844a214744">>,
      <<"(2,):{'a': None, 'b': 2}", "18aaafb76ae3">>,
      <<"(2,):{'a': None, 'b': None}", "6c1b44c8be08">>,
      <<"(2,):{'a': 1, 'db': None}", "810a57f736c9">>,
      <<"(2,):{'a': 1, 'db': <db1>}", "ebf886714ddd">>,
      <<"(2,):{'a': 1, 'db': <db2>}", "45a15cc8e775">>,
      <<"(2,):{'a': 2, 'db': None}", "9f1b9d8ebe61">>,
      <<"(2,):{'a': 2, 'db': <db1>}", "4dc619bc7f1c">>,
      <<"(2,):{'a': 2, 'db': <db2>}", "7da97a00341e">>,
      <<"(2,):{'a': None, 'db': None}", "375b8ef1701e">>,
      <<"(2,):{'a': None, 'db': <db1>}", "1a02aff6f48a">>,
      <<"(2,):{'a': None, 'db': <db2>}", "e42ffbfea227">>,
      <<"(2,):{'b': 1, 'a': 1}", "ce14cef79c4d">>,
      <<"(2,):{'b': 1, 'a': 2}", "a45231d237e1">>,
      <<"(2,):{'b': 1, 'a': None}", "590b536f6ee2">>,
      <<"(2,):{'b': 2, 'a': 1}", "c00a552b39f8">>,
      <<"(2,):{'b': 2, 'a': 2}", "3600d658a4a5">>,
      <<"(2,):{'b': 2, 'a': None}", "6fa669f3e4f9">>,
      <<"(2,):{'b': None, 'a': 1}", "7c0f62d1b230">>,
      <<"(2,):{'b': None, 'a': 2}", "dab37fd993b6">>,
      <<"(2,):{'b': None, 'a': None}", "145eaee0ff16">>,
      <<"(2,):{'b': 1, 'db': None}", "efe8b0024197">>,
      <<"(2,):{'b': 1, 'db': <db1>}", "52586270261d">>,
      <<"(2,):{'b': 1, 'db': <db2>}", "7776cef64544">>,
      <<"(2,):{'b': 2, 'db': None}", "ebca2525264c">>,
      <<"(2,):{'b': 2, 'db': <db1>}", "69905175b439">>,
      <<"(2,):{'b': 2, 'db': <db2>}", "4ad657c67e56">>,
      <<"(2,):{'b': None, 'db': None}", "9a8dfb61e1cb">>,
      <<"(2,):{'b': None, 'db': <db1>}", "3bb2e79e89bd">>,
      <<"(2,):{'b': None, 'db': <db2>}", "3afb815beef8">>,
      <<"(2,):{'db': None, 'a': 1}", "07d3b5625e1d">>,
      <<"(2,):{'db': None, 'a': 2}", "0ac6c4e909ed">>,
      <<"(2,):{'db': None, 'a': None}", "77f004e1eeae">>,
      <<"(2,):{'db': <db1>, 'a': 1}", "b99cc8bfd7b1">>,
      <<"(2,):{'db': <db1>, 'a': 2}", "891d28e82bb6">>,
      <<"(2,):{'db': <db1>, 'a': None}", "131be8104c4e">>,
      <<"(2,):{'db': <db2>, 'a': 1}", "1edf4c65f262">>,
      <<"(2,):{'db': <db2>, 'a': 2}", "771717e21728">>,
      <<"(2,):{'db': <db2>, 'a': None}", "517b167a757d">>,
      <<"(2,):{'db': None, 'b': 1}", "398f4b27050d">>,
      <<"(2,):{'db': None, 'b': 2}", "298f80e68c56">>,
      <<"(2,):{'db': None, 'b': None}", "3a9832f66b7b">>,
      <<"(2,):{'db': <db1>, 'b': 1}", "cf0fb077d697">>,
      <<"(2,):{'db': <db1>, 'b': 2}", "4333ebb91fbd">>,
      <<"(2,):{'db': <db1>, 'b': None}", "1e5a1fb4479d">>,
      <<"(2,):{'db': <db2>, 'b': 1}", "77fcd37f1d5c">>,
      <<"(2,):{'db': <db2>, 'b': 2}", "6b07831c251f">>,
      <<"(2,):{'db': <db2>, 'b': None}", "f3ab855d0b0f">>,
      <<"(None,):{}", "763519f83406">>,
      <<"(None,):{'a': 1}", "c5e9f242f1f9">>,
      <<"(None,):{'a': 2}", "5ba8bbc784d3">>,
      <<"(None,):{'a': None}", "a75753f75317">>,
      <<"(None,):{'b': 1}", "f5af89fbc4cd">>,
      <<"(None,):{'b': 2}", "6523f68a024a">>,
      <<"(None,):{'b': None}", "c9d897a6c204">>,
      <<"(None,):{'db': None}", "62eb4247a14e">>,
      <<"(None,):{'db': <db1>}", "f96a74d6bab7">>,
      <<"(None,):{'db': <db2>}", "728e423de9ce">>,
      <<"(None,):{'a': 1, 'b': 1}", "20d0a93ab423">>,
      <<"(None,):{'a': 1, 'b': 2}", "083f06e48eb5">>,
      <<"(None,):{'a': 1, 'b': None}", "5c80640c488f">>,
      <<"(None,):{'a': 2, 'b': 1}", "27e26025be21">>,
      <<"(None,):{'a': 2, 'b': 2}", "349e3bcb8792">>,
      <<"(None,):{'a': 2, 'b': None}", "5de065b1873e">>,
      <<"(None,):{'a': None, 'b': 1}", "b4b62ce2baf5">>,
      <<"(None,):{'a': None, 'b': 2}", "3ec2bedcbb10">>,
      <<"(None,):{'a': None, 'b': None}", "e97933aa4172">>,
      <<"(None,):{'a': 1, 'db': None}", "f9728bf5a8b0">>,
      <<"(None,):{'a': 1, 'db': <db1>}", "9c4fd386bf92">>,
      <<"(None,):{'a': 1, 'db': <db2>}", "76a62ff7aa33">>,
      <<"(None,):{'a': 2, 'db': None}", "c664c66ac19a">>,
      <<"(None,):{'a': 2, 'db': <db1>}", "64e9e68a260f">>,
      <<"(None,):{'a': 2, 'db': <db2>}", "2ba4ad91ffcd">>,
      <<"(None,):{'a': None, 'db': None}", "2b1d9398f7f8">>,
      <<"(None,):{'a': None, 'db': <db1>}", "45b8f71f01a6">>,
      <<"(None,):{'a': None, 'db': <db2>}", "57cbb3e21bf7">>,
      <<"(None,):{'b': 1, 'a': 1}", "79a7dcd13964">>,
      <<"(None,):{'b': 1, 'a': 2}", "d2cfa2a24ef8">>,
      <<"(None,):{'b': 1, 'a': None}", "c44f51459903">>,
      <<"(None,):{'b': 2, 'a': 1}", "d09b012862eb">>,
      <<"(None,):{'b': 2, 'a': 2}", "000efc529150">>,
      <<"(None,):{'b': 2, 'a': None}", "330af11e9e20">>,
      <<"(None,):{'b': None, 'a': 1}", "bdfbb2a03335">>,
      <<"(None,):{'b': None, 'a': 2}", "60dfd3b88918">>,
      <<"(None,):{'b': None, 'a': None}", "5f8fb4c735cc">>,
      <<"(None,):{'b': 1, 'db': None}", "3c465e41bd0b">>,
      <<"(None,):{'b': 1, 'db': <db1>}", "9f577f4db14e">>,
      <<"(None,):{'b': 1, 'db': <db2>}", "4eecd4e00814">>,
      <<"(None,):{'b': 2, 'db': None}", "ce31678dd4e4">>,
      <<"(None,):{'b': 2, 'db': <db1>}", "fa6fd38ad6e3">>,
      <<"(None,):{'b': 2, 'db': <db2>}", "4ae30acf6ebd">>,
      <<"(None,):{'b': None, 'db': None}", "d4695a2ad08b">>,
      <<"(None,):{'b': None, 'db': <db1>}", "a3c9a487c9cc">>,
      <<"(None,):{'b': None, 'db': <db2>}", "d952b21a3a63">>,
      <<"(None,):{'db': None, 'a': 1}", "b66a0ee26a3a">>,
      <<"(None,):{'db': None, 'a': 2}", "128f17b5db51">>,
      <<"(None,):{'db': None, 'a': None}", "a071530f7001">>,
      <<"(None,):{'db': <db1>, 'a': 1}", "9348018b0935">>,
      <<"(None,):{'db': <db1>, 'a': 2}", "30204d2585e6">>,
      <<"(None,):{'db': <db1>, 'a': None}", "98db0425723d">>,
      <<"(None,):{'db': <db2>, 'a': 1}", "e98c9fe2efb6">>,
      <<"(None,):{'db': <db2>, 'a': 2}", "22e5f0b24fa8">>,
      <<"(None,):{'db': <db2>, 'a': None}", "a05bb24d58b5">>,
      <<"(None,):{'db': None, 'b': 1}", "5231a71935c6">>,
      <<"(None,):{'db': None, 'b': 2}", "af9a9e37a5ae">>,
      <<"(None,):{'db': None, 'b': None}", "e742563d7c6e">>,
      <<"(None,):{'db': <db1>, 'b': 1}", "ffcc451b1fd4">>,
      <<"(None,):{'db': <db1>, 'b': 2}", "bde153c0fbcf">>,
      <<"(None,):{'db': <db1>, 'b': None}", "60ce34d3e676">>,
      <<"(None,):{'db': <db2>, 'b': 1}", "13c6daf8eb21">>,
      <<"(None,):{'db': <db2>, 'b': 2}", "c7fa7db6a3e2">>,
      <<"(None,):{'db': <db2>, 'b': None}", "fffd4df24d90">>,
      <<"(1, None):{}", "3b0c7f03d391">>,
      <<"(1, None):{'a': 1}", "d82c9566cdba">>,
      <<"(1, None):{'a': 2}", "36c211a362eb">>,
      <<"(1, None):{'a': None}", "ac9dd3c16e45">>,
      <<"(1, None):{'b': 1}", "a80e8ce7fedf">>,
      <<"(1, None):{'b': 2}", "4a146d65dbe9">>,
      <<"(1, None):{'b': None}", "453d186263fd">>,
      <<"(1, None):{'db': None}", "5a52a0b29655">>,
      <<"(1, None):{'db': <db1>}", "ae98777e40e1">>,
      <<"(1, None):{'db': <db2>}", "f1a07a9ffd97">>,
      <<"(1, None):{'a': 1, 'b': 1}", "0021d226a39f">>,
      <<"(1, None):{'a': 1, 'b': 2}", "22af952f5f49">>,
      <<"(1, None):{'a': 1, 'b': None}", "508b8b78f767">>,
      <<"(1, None):{'a': 2, 'b': 1}", "19e6b82bc00b">>,
      <<"(1, None):{'a': 2, 'b': 2}", "2575980315f8">>,
      <<"(1, None):{'a': 2, 'b': None}", "884c40d6f418">>,
      <<"(1, None):{'a': None, 'b': 1}", "cf7ec089d3f9">>,
      <<"(1, None):{'a': None, 'b': 2}", "612b6b0239bf">>,
      <<"(1, None):{'a': None, 'b': None}", "5c5b0b9a5038">>,
      <<"(1, None):{'a': 1, 'db': None}", "abcfa2f3e7f3">>,
      <<"(1, None):{'a': 1, 'db': <db1>}", "088a851a247c">>,
      <<"(1, None):{'a': 1, 'db': <db2>}", "24258d16c61d">>,
      <<"(1, None):{'a': 2, 'db': None}", "a2ebc5395e70">>,
      <<"(1, None):{'a': 2, 'db': <db1>}", "abd0fc5292be">>,
      <<"(1, None):{'a': 2, 'db': <db2>}", "47f00573baed">>,
      <<"(1, None):{'a': None, 'db': None}", "b27fb1ba442a">>,
      <<"(1, None):{'a': None, 'db': <db1>}", "0eb6aa8876f3">>,
      <<"(1, None):{'a': None, 'db': <db2>}", "0a70d8e9559e">>,
      <<"(1, None):{'b': 1, 'a': 1}", "ebf17fdb284d">>,
      <<"(1, None):{'b': 1, 'a': 2}", "2079a07e2f49">>,
      <<"(1, None):{'b': 1, 'a': None}", "a36675484805">>,
      <<"(1, None):{'b': 2, 'a': 1}", "ad61f3ae5c39">>,
      <<"(1, None):{'b': 2, 'a': 2}", "b32132c359c6">>,
      <<"(1, None):{'b': 2, 'a': None}", "646eb70937ac">>,
      <<"(1, None):{'b': None, 'a': 1}", "b285b049b3f2">>,
      <<"(1, None):{'b': None, 'a': 2}", "ad72dacc7e0e">>,
      <<"(1, None):{'b': None, 'a': None}", "0fd7340d99d9">>,
      <<"(1, None):{'b': 1, 'db': None}", "f13b9d50f375">>,
      <<"(1, None):{'b': 1, 'db': <db1>}", "17209a7792db">>,
      <<"(1, None):{'b': 1, 'db': <db2>}", "0d19f1cdfc04">>,
      <<"(1, None):{'b': 2, 'db': None}", "94e6fe2ff52e">>,
      <<"(1, None):{'b': 2, 'db': <db1>}", "b0a8eda9996b">>,
      <<"(1, None):{'b': 2, 'db': <db2>}", "2220bd782aa6">>,
      <<"(1, None):{'b': None, 'db': None}", "1c1b1d20e4ea">>,
      <<"(1, None):{'b': None, 'db': <db1>}", "0a42f1d31aec">>,
      <<"(1, None):{'b': None, 'db': <db2>}", "051b34fbde44">>,
      <<"(1, None):{'db': None, 'a': 1}", "e482fe006780">>,
      <<"(1, None):{'db': None, 'a': 2}", "783a2c6e7099">>,
      <<"(1, None):{'db': None, 'a': None}", "5076324e4ef5">>,
      <<"(1, None):{'db': <db1>, 'a': 1}", "377995b6f88d">>,
      <<"(1, None):{'db': <db1>, 'a': 2}", "9b88c8a9fa27">>,
      <<"(1, None):{'db': <db1>, 'a': None}", "83789a29cbb0">>,
      <<"(1, None):{'db': <db2>, 'a': 1}", "3713145052a3">>,
      <<"(1, None):{'db': <db2>, 'a': 2}", "e5ce31485235">>,
      <<"(1, None):{'db': <db2>, 'a': None}", "3b9896c394fd">>,
      <<"(1, None):{'db': None, 'b': 1}", "aa8eb87473a2">>,
      <<"(1, None):{'db': None, 'b': 2}", "f791f2ba0d3e">>,
      <<"(1, None):{'db': None, 'b': None}", "f5282d77ed71">>,
      <<"(1, None):{'db': <db1>, 'b': 1}", "d8a05b2c1f9b">>,
      <<"(1, None):{'db': <db1>, 'b': 2}", "27d4769e2760">>,
      <<"(1, None):{'db': <db1>, 'b': None}", "6a46280f484d">>,
      <<"(1, None):{'db': <db2>, 'b': 1}", "ce9a39ca3013">>,
      <<"(1, None):{'db': <db2>, 'b': 2}", "d20c316c1cb9">>,
      <<"(1, None):{'db': <db2>, 'b': None}", "7b51cf7127d9">>,
      <<"(1, <db1>):{}", "ff459bc119e9">>,
      <<"(1, <db1>):{'a': 1}", "9a3a870781a3">>,
      <<"(1, <db1>):{'a': 2}", "d562f28161ed">>,
      <<"(1, <db1>):{'a': None}", "df149c1934ef">>,
      <<"(1, <db1>):{'b': 1}", "6e94c3bde7c6">>,
      <<"(1, <db1>):{'b': 2}", "59c5372a4520">>,
      <<"(1, <db1>):{'b': None}", "9eb2d7063d64">>,
      <<"(1, <db1>):{'db': None}", "93f064baff15">>,
      <<"(1, <db1>):{'db': <db1>}", "f1eb73d4bca9">>,
      <<"(1, <db1>):{'db': <db2>}", "6aec4a0c9c63">>,
      <<"(1, <db1>):{'a': 1, 'b': 1}", "b79eaeedfbc1">>,
      <<"(1, <db1>):{'a': 1, 'b': 2}", "42f7511c12f6">>,
      <<"(1, <db1>):{'a': 1, 'b': None}", "6c8f2866f9f9">>,
      <<"(1, <db1>):{'a': 2, 'b': 1}", "13c584258259">>,
      <<"(1, <db1>):{'a': 2, 'b': 2}", "0b9ea40100ed">>,
      <<"(1, <db1>):{'a': 2, 'b': None}", "0bf1bdbf5171">>,
      <<"(1, <db1>):{'a': None, 'b': 1}", "065f6b19a71d">>,
      <<"(1, <db1>):{'a': None, 'b': 2}", "dc919fa2fcac">>,
      <<"(1, <db1>):{'a': None, 'b': None}", "79c899bb2502">>,
      <<"(1, <db1>):{'a': 1, 'db': None}", "5cbe4315b4ac">>,
      <<"(1, <db1>):{'a': 1, 'db': <db1>}", "118e711ac590">>,
      <<"(1, <db1>):{'a': 1, 'db': <db2>}", "951324b687de">>,
      <<"(1, <db1>):{'a': 2, 'db': None}", "b34c6d205975">>,
      <<"(1, <db1>):{'a': 2, 'db': <db1>}", "a1c24514b7d8">>,
      <<"(1, <db1>):{'a': 2, 'db': <db2>}", "c37cd2d2c776">>,
      <<"(1, <db1>):{'a': None, 'db': None}", "7551bb0ab056">>,
      <<"(1, <db1>):{'a': None, 'db': <db1>}", "69c8542fc93b">>,
      <<"(1, <db1>):{'a': None, 'db': <db2>}", "56a23fa4c7d4">>,
      <<"(1, <db1>):{'b': 1, 'a': 1}", "ec631346cdd6">>,
      <<"(1, <db1>):{'b': 1, 'a': 2}", "ecf5cfdaf941">>,
      <<"(1, <db1>):{'b': 1, 'a': None}", "0427f9fa94ff">>,
      <<"(1, <db1>):{'b': 2, 'a': 1}", "9e8744bc559e">>,
      <<"(1, <db1>):{'b': 2, 'a': 2}", "c9dff39dd97e">>,
      <<"(1, <db1>):{'b': 2, 'a': None}", "9a79a2cfe8dc">>,
      <<"(1, <db1>):{'b': None, 'a': 1}", "47910530e8b3">>,
      <<"(1, <db1>):{'b': None, 'a': 2}", "35e971dd0de0">>,
      <<"(1, <db1>):{'b': None, 'a': None}", "3afe6adc24e3">>,
      <<"(1, <db1>):{'b': 1, 'db': None}", "88498316bc54">>,
      <<"(1, <db1>):{'b': 1, 'db': <db1>}", "7a3396a5159d">>,
      <<"(1, <db1>):{'b': 1, 'db': <db2>}", "529047678d1f">>,
      <<"(1, <db1>):{'b': 2, 'db': None}", "3ba0fb88b1d2">>,
      <<"(1, <db1>):{'b': 2, 'db': <db1>}", "74b99975770d">>,
      <<"(1, <db1>):{'b': 2, 'db': <db2>}", "c23904ccc070">>,
      <<"(1, <db1>):{'b': None, 'db': None}", "1bb086bee2f8">>,
      <<"(1, <db1>):{'b': None, 'db': <db1>}", "990d0ad89dc5">>,
      <<"(1, <db1>):{'b': None, 'db': <db2>}", "2145f39fb9dc">>,
      <<"(1, <db1>):{'db': None, 'a': 1}", "6f9389187d06">>,
      <<"(1, <db1>):{'db': None, 'a': 2}", "300582101a75">>,
      <<"(1, <db1>):{'db': None, 'a': None}", "c765c20ae672">>,
      <<"(1, <db1>):{'db': <db1>, 'a': 1}", "3b8cebe45ae5">>,
      <<"(1, <db1>):{'db': <db1>, 'a': 2}", "18509325a759">>,
      <<"(1, <db1>):{'db': <db1>, 'a': None}", "8ed5985e000a">>,
      <<"(1, <db1>):{'db': <db2>, 'a': 1}", "abc3a1115d9e">>,
      <<"(1, <db1>):{'db': <db2>, 'a': 2}", "2a5e6e27e2bf">>,
      <<"(1, <db1>):{'db': <db2>, 'a': None}", "601f336f5543">>,
      <<"(1, <db1>):{'db': None, 'b': 1}", "7b96cf046f3a">>,
      <<"(1, <db1>):{'db': None, 'b': 2}", "54bc959a8214">>,
      <<"(1, <db1>):{'db': None, 'b': None}", "6ee194d5f5e8">>,
      <<"(1, <db1>):{'db': <db1>, 'b': 1}", "6a3c206d523a">>,
      <<"(1, <db1>):{'db': <db1>, 'b': 2}", "28a2b8a71a02">>,
      <<"(1, <db1>):{'db': <db1>, 'b': None}", "eed47a301eb2">>,
      <<"(1, <db1>):{'db': <db2>, 'b': 1}", "f767e0403fb7">>,
      <<"(1, <db1>):{'db': <db2>, 'b': 2}", "bb51a81859a0">>,
      <<"(1, <db1>):{'db': <db2>, 'b': None}", "41c2bdbb09fe">>,
      <<"(1, <db2>):{}", "28864887ba5e">>,
      <<"(1, <db2>):{'a': 1}", "f4eedfea0da5">>,
      <<"(1, <db2>):{'a': 2}", "7a6e5573ceea">>,
      <<"(1, <db2>):{'a': None}", "506fd8200183">>,
      <<"(1, <db2>):{'b': 1}", "5ca6dfedd820">>,
      <<"(1, <db2>):{'b': 2}", "f6ebb4742aa7">>,
      <<"(1, <db2>):{'b': None}", "3e47efd611bd">>,
      <<"(1, <db2>):{'db': None}", "44ed7b947ed6">>,
      <<"(1, <db2>):{'db': <db1>}", "30393229e214">>,
      <<"(1, <db2>):{'db': <db2>}", "06d1400b0a61">>,
      <<"(1, <db2>):{'a': 1, 'b': 1}", "bca4844d9038">>,
      <<"(1, <db2>):{'a': 1, 'b': 2}", "19e428694391">>,
      <<"(1, <db2>):{'a': 1, 'b': None}", "8fab5c0610fb">>,
      <<"(1, <db2>):{'a': 2, 'b': 1}", "2e0db4cc5f90">>,
      <<"(1, <db2>):{'a': 2, 'b': 2}", "ad54709c4c6f">>,
      <<"(1, <db2>):{'a': 2, 'b': None}", "ba37c63a7c5b">>,
      <<"(1, <db2>):{'a': None, 'b': 1}", "bfb9157f005c">>,
      <<"(1, <db2>):{'a': None, 'b': 2}", "4d6dbf0982d3">>,
      <<"(1, <db2>):{'a': None, 'b': None}", "0088fbc8cab1">>,
      <<"(1, <db2>):{'a': 1, 'db': None}", "f2c1df75fc1f">>,
      <<"(1, <db2>):{'a': 1, 'db': <db1>}", "b71a47e7c917">>,
      <<"(1, <db2>):{'a': 1, 'db': <db2>}", "23c108e03f96">>,
      <<"(1, <db2>):{'a': 2, 'db': None}", "38d6c2d2994e">>,
      <<"(1, <db2>):{'a': 2, 'db': <db1>}", "1e75c4dce48d">>,
      <<"(1, <db2>):{'a': 2, 'db': <db2>}", "611bf368f76c">>,
      <<"(1, <db2>):{'a': None, 'db': None}", "b89d0236dc12">>,
      <<"(1, <db2>):{'a': None, 'db': <db1>}", "1e3cc83a57c4">>,
      <<"(1, <db2>):{'a': None, 'db': <db2>}", "bdf8e8596258">>,
      <<"(1, <db2>):{'b': 1, 'a': 1}", "fbe32da61434">>,
      <<"(1, <db2>):{'b': 1, 'a': 2}", "69f4c55f56f5">>,
      <<"(1, <db2>):{'b': 1, 'a': None}", "9913fd07a7b0">>,
      <<"(1, <db2>):{'b': 2, 'a': 1}", "f3705a07b89f">>,
      <<"(1, <db2>):{'b': 2, 'a': 2}", "b9aa4d862e03">>,
      <<"(1, <db2>):{'b': 2, 'a': None}", "405ed65e29dc">>,
      <<"(1, <db2>):{'b': None, 'a': 1}", "4226db35851b">>,
      <<"(1, <db2>):{'b': None, 'a': 2}", "c2c20f554814">>,
      <<"(1, <db2>):{'b': None, 'a': None}", "e23bcab4554b">>,
      <<"(1, <db2>):{'b': 1, 'db': None}", "c22a8f858922">>,
      <<"(1, <db2>):{'b': 1, 'db': <db1>}", "35d64ed37e58">>,
      <<"(1, <db2>):{'b': 1, 'db': <db2>}", "86984e793de6">>,
      <<"(1, <db2>):{'b': 2, 'db': None}", "1f8d6410f8f5">>,
      <<"(1, <db2>):{'b': 2, 'db': <db1>}", "270204f2c15b">>,
      <<"(1, <db2>):{'b': 2, 'db': <db2>}", "25f51e847937">>,
      <<"(1, <db2>):{'b': None, 'db': None}", "f57b444924b6">>,
      <<"(1, <db2>):{'b': None, 'db': <db1>}", "818bbe9178f1">>,
      <<"(1, <db2>):{'b': None, 'db': <db2>}", "482b50c72fa0">>,
      <<"(1, <db2>):{'db': None, 'a': 1}", "4cdbae2695f1">>,
      <<"(1, <db2>):{'db': None, 'a': 2}", "acec39cb98eb">>,
      <<"(1, <db2>):{'db': None, 'a': None}", "04417b9f90b1">>,
      <<"(1, <db2>):{'db': <db1>, 'a': 1}", "99f3eda40145">>,
      <<"(1, <db2>):{'db': <db1>, 'a': 2}", "9756c4000e64">>,
      <<"(1, <db2>):{'db': <db1>, 'a': None}", "475a1c90470a">>,
      <<"(1, <db2>):{'db': <db2>, 'a': 1}", "40fce2573531">>,
      <<"(1, <db2>):{'db': <db2>, 'a': 2}", "56b5dcee72b3">>,
      <<"(1, <db2>):{'db': <db2>, 'a': None}", "9c7621e350c2">>,
      <<"(1, <db2>):{'db': None, 'b': 1}", "8081d6c7d89e">>,
      <<"(1, <db2>):{'db': None, 'b': 2}", "3e96cb982fc4">>,
      <<"(1, <db2>):{'db': None, 'b': None}", "0d9bb37036ce">>,
      <<"(1, <db2>):{'db': <db1>, 'b': 1}", "4964ff4c57b0">>,
      <<"(1, <db2>):{'db': <db1>, 'b': 2}", "384ba8a20d3a">>,
      <<"(1, <db2>):{'db': <db1>, 'b': None}", "6149273e1180">>,
      <<"(1, <db2>):{'db': <db2>, 'b': 1}", "caabd9e03e27">>,
      <<"(1, <db2>):{'db': <db2>, 'b': 2}", "9f2d61d0c79e">>,
      <<"(1, <db2>):{'db': <db2>, 'b': None}", "62eaf82499f5">>,
      <<"(2, None):{}", "b23ca327b29f">>,
      <<"(2, None):{'a': 1}", "081e2e97d139">>,
      <<"(2, None):{'a': 2}", "dd60ed41eb74">>,
      <<"(2, None):{'a': None}", "ffef749bf245">>,
      <<"(2, None):{'b': 1}", "742e9c8271b1">>,
      <<"(2, None):{'b': 2}", "a32735a92ee2">>,
      <<"(2, None):{'b': None}", "1a960ccf82d0">>,
      <<"(2, None):{'db': None}", "9f03e5f8a343">>,
      <<"(2, None):{'db': <db1>}", "d4fc3d56b536">>,
      <<"(2, None):{'db': <db2>}", "beb39f673dde">>,
      <<"(2, None):{'a': 1, 'b': 1}", "0c0a499dd7e7">>,
      <<"(2, None):{'a': 1, 'b': 2}", "ccde5deb0242">>,
      <<"(2, None):{'a': 1, 'b': None}", "0c4656bcea41">>,
      <<"(2, None):{'a': 2, 'b': 1}", "67f8a9955fc0">>,
      <<"(2, None):{'a': 2, 'b': 2}", "709fc853850d">>,
      <<"(2, None):{'a': 2, 'b': None}", "0063f912d32b">>,
      <<"(2, None):{'a': None, 'b': 1}", "569e3182f46b">>,
      <<"(2, None):{'a': None, 'b': 2}", "d4dc0eb44438">>,
      <<"(2, None):{'a': None, 'b': None}", "4be49dd38934">>,
      <<"(2, None):{'a': 1, 'db': None}", "d90343855d39">>,
      <<"(2, None):{'a': 1, 'db': <db1>}", "91291eae00a0">>,
      <<"(2, None):{'a': 1, 'db': <db2>}", "b27fb585c386">>,
      <<"(2, None):{'a': 2, 'db': None}", "0a6b52cef665">>,
      <<"(2, None):{'a': 2, 'db': <db1>}", "6f7f716fb7e1">>,
      <<"(2, None):{'a': 2, 'db': <db2>}", "2860a0233330">>,
      <<"(2, None):{'a': None, 'db': None}", "43aafc392b26">>,
      <<"(2, None):{'a': None, 'db': <db1>}", "a868e026e9f7">>,
      <<"(2, None):{'a': None, 'db': <db2>}", "fc8b84903944">>,
      <<"(2, None):{'b': 1, 'a': 1}", "bf7c2e9c7370">>,
      <<"(2, None):{'b': 1, 'a': 2}", "066eef03a54d">>,
      <<"(2, None):{'b': 1, 'a': None}", "520a634b1501">>,
      <<"(2, None):{'b': 2, 'a': 1}", "53c38af7a5d0">>,
      <<"(2, None):{'b': 2, 'a': 2}", "cafa72fb5fdc">>,
      <<"(2, None):{'b': 2, 'a': None}", "89cf0de86ef5">>,
      <<"(2, None):{'b': None, 'a': 1}", "0afab78bea47">>,
      <<"(2, None):{'b': None, 'a': 2}", "b6eaa094c56e">>,
      <<"(2, None):{'b': None, 'a': None}", "fc3562e222df">>,
      <<"(2, None):{'b': 1, 'db': None}", "7cfb6c818143">>,
      <<"(2, None):{'b': 1, 'db': <db1>}", "f980fac181a2">>,
      <<"(2, None):{'b': 1, 'db': <db2>}", "aa4c3e90f4ee">>,
      <<"(2, None):{'b': 2, 'db': None}", "0083b2087c10">>,
      <<"(2, None):{'b': 2, 'db': <db1>}", "2fa679a92c89">>,
      <<"(2, None):{'b': 2, 'db': <db2>}", "c35470765887">>,
      <<"(2, None):{'b': None, 'db': None}", "d47ff67919e7">>,
      <<"(2, None):{'b': None, 'db': <db1>}", "5494d650f035">>,
      <<"(2, None):{'b': None, 'db': <db2>}", "0efc5acf748d">>,
      <<"(2, None):{'db': None, 'a': 1}", "10a07409cd84">>,
      <<"(2, None):{'db': None, 'a': 2}", "6d4a9e852975">>,
      <<"(2, None):{'db': None, 'a': None}", "d1a76f4a007d">>,
      <<"(2, None):{'db': <db1>, 'a': 1}", "891e540d3431">>,
      <<"(2, None):{'db': <db1>, 'a': 2}", "fd6fbeffe8f9">>,
      <<"(2, None):{'db': <db1>, 'a': None}", "a8f9c80854b0">>,
      <<"(2, None):{'db': <db2>, 'a': 1}", "cb9bebff09ab">>,
      <<"(2, None):{'db': <db2>, 'a': 2}", "61a8a4391b9a">>,
      <<"(2, None):{'db': <db2>, 'a': None}", "bb861426a939">>,
      <<"(2, None):{'db': None, 'b': 1}", "3a5a1c9aa8ef">>,
      <<"(2, None):{'db': None, 'b': 2}", "c9ef628c96e0">>,
      <<"(2, None):{'db': None, 'b': None}", "08a1d8ea2aa5">>,
      <<"(2, None):{'db': <db1>, 'b': 1}", "c3f7aeb8c570">>,
      <<"(2, None):{'db': <db1>, 'b': 2}", "9a0c8611b626">>,
      <<"(2, None):{'db': <db1>, 'b': None}", "796bf8265ab6">>,
      <<"(2, None):{'db': <db2>, 'b': 1}", "e42aa94dea1c">>,
      <<"(2, None):{'db': <db2>, 'b': 2}", "3cdc1c003ec1">>,
      <<"(2, None):{'db': <db2>, 'b': None}", "e868823cca37">>,
      <<"(2, <db1>):{}", "0aed35e5867a">>,
      <<"(2, <db1>):{'a': 1}", "ea65c95213e7">>,
      <<"(2, <db1>):{'a': 2}", "8baffa7a5a99">>,
      <<"(2, <db1>):{'a': None}", "a757451ccf4a">>,
      <<"(2, <db1>):{'b': 1}", "b0d090012c72">>,
      <<"(2, <db1>):{'b': 2}", "5fec843528ef">>,
      <<"(2, <db1>):{'b': None}", "447e4f10be5c">>,
      <<"(2, <db1>):{'db': None}", "d34ea7957100">>,
      <<"(2, <db1>):{'db': <db1>}", "4bfe87f6045e">>,
      <<"(2, <db1>):{'db': <db2>}", "0bde4c2494f2">>,
      <<"(2, <db1>):{'a': 1, 'b': 1}", "c8293503ded0">>,
      <<"(2, <db1>):{'a': 1, 'b': 2}", "1d8d34649850">>,
      <<"(2, <db1>):{'a': 1, 'b': None}", "d8c0c9099c16">>,
      <<"(2, <db1>):{'a': 2, 'b': 1}", "abf7aaa4f6f3">>,
      <<"(2, <db1>):{'a': 2, 'b': 2}", "8c4191459af9">>,
      <<"(2, <db1>):{'a': 2, 'b': None}", "a4bfa50ce7d4">>,
      <<"(2, <db1>):{'a': None, 'b': 1}", "f917aa22417c">>,
      <<"(2, <db1>):{'a': None, 'b': 2}", "b9f1b5f58336">>,
      <<"(2, <db1>):{'a': None, 'b': None}", "8f51259cae92">>,
      <<"(2, <db1>):{'a': 1, 'db': None}", "6044558dd0b0">>,
      <<"(2, <db1>):{'a': 1, 'db': <db1>}", "d931a9c0bc3b">>,
      <<"(2, <db1>):{'a': 1, 'db': <db2>}", "6d7857c6cc3a">>,
      <<"(2, <db1>):{'a': 2, 'db': None}", "f70f8ae82db6">>,
      <<"(2, <db1>):{'a': 2, 'db': <db1>}", "8fcac33d2f56">>,
      <<"(2, <db1>):{'a': 2, 'db': <db2>}", "2591f538bc3f">>,
      <<"(2, <db1>):{'a': None, 'db': None}", "9848f76dac67">>,
      <<"(2, <db1>):{'a': None, 'db': <db1>}", "72489d4516d3">>,
      <<"(2, <db1>):{'a': None, 'db': <db2>}", "fb7b5427c47b">>,
      <<"(2, <db1>):{'b': 1, 'a': 1}", "29a4c836dad8">>,
      <<"(2, <db1>):{'b': 1, 'a': 2}", "97ad183e8692">>,
      <<"(2, <db1>):{'b': 1, 'a': None}", "60c79162cabe">>,
      <<"(2, <db1>):{'b': 2, 'a': 1}", "aace97065024">>,
      <<"(2, <db1>):{'b': 2, 'a': 2}", "1052a0eb5b95">>,
      <<"(2, <db1>):{'b': 2, 'a': None}", "3eea4644e647">>,
      <<"(2, <db1>):{'b': None, 'a': 1}", "cfd030a442fc">>,
      <<"(2, <db1>):{'b': None, 'a': 2}", "efe239c12f10">>,
      <<"(2, <db1>):{'b': None, 'a': None}", "185e1e8516bb">>,
      <<"(2, <db1>):{'b': 1, 'db': None}", "99f7e7a0aa14">>,
      <<"(2, <db1>):{'b': 1, 'db': <db1>}", "48e7c010eb7b">>,
      <<"(2, <db1>):{'b': 1, 'db': <db2>}", "e8844ddef8ca">>,
      <<"(2, <db1>):{'b': 2, 'db': None}", "316113cee4e8">>,
      <<"(2, <db1>):{'b': 2, 'db': <db1>}", "4811327a8ada">>,
      <<"(2, <db1>):{'b': 2, 'db': <db2>}", "c649fd0b613a">>,
      <<"(2, <db1>):{'b': None, 'db': None}", "52e16d6b8caa">>,
      <<"(2, <db1>):{'b': None, 'db': <db1>}", "770f4e8910ec">>,
      <<"(2, <db1>):{'b': None, 'db': <db2>}", "00b898bc2b44">>,
      <<"(2, <db1>):{'db': None, 'a': 1}", "b3558b1d11af">>,
      <<"(2, <db1>):{'db': None, 'a': 2}", "d0684607560b">>,
      <<"(2, <db1>):{'db': None, 'a': None}", "19a6b171403d">>,
      <<"(2, <db1>):{'db': <db1>, 'a': 1}", "1cf0630f8538">>,
      <<"(2, <db1>):{'db': <db1>, 'a': 2}", "fd846cf07edc">>,
      <<"(2, <db1>):{'db': <db1>, 'a': None}", "ba86f350bcfa">>,
      <<"(2, <db1>):{'db': <db2>, 'a': 1}", "d62517364159">>,
      <<"(2, <db1>):{'db': <db2>, 'a': 2}", "ef2546717b77">>,
      <<"(2, <db1>):{'db': <db2>, 'a': None}", "8b155e07ef99">>,
      <<"(2, <db1>):{'db': None, 'b': 1}", "5dbe473f8569">>,
      <<"(2, <db1>):{'db': None, 'b': 2}", "8f3409c6cd39">>,
      <<"(2, <db1>):{'db': None, 'b': None}", "cdac837f4f47">>,
      <<"(2, <db1>):{'db': <db1>, 'b': 1}", "53f7f25b894b">>,
      <<"(2, <db1>):{'db': <db1>, 'b': 2}", "df34742c29bb">>,
      <<"(2, <db1>):{'db': <db1>, 'b': None}", "be6cd567c28d">>,
      <<"(2, <db1>):{'db': <db2>, 'b': 1}", "a64a1481c95a">>,
      <<"(2, <db1>):{'db': <db2>, 'b': 2}", "d58891e9e69d">>,
      <<"(2, <db1>):{'db': <db2>, 'b': None}", "0cc35f5f1a55">>,
      <<"(2, <db2>):{}", "2f2b818d1933">>,
      <<"(2, <db2>):{'a': 1}", "03ca56865873">>,
      <<"(2, <db2>):{'a': 2}", "a64e84af18f8">>,
      <<"(2, <db2>):{'a': None}", "8e03a6f6b167">>,
      <<"(2, <db2>):{'b': 1}", "2ceeb8b6a063">>,
      <<"(2, <db2>):{'b': 2}", "508598353899">>,
      <<"(2, <db2>):{'b': None}", "8d10db1b926b">>,
      <<"(2, <db2>):{'db': None}", "0362f5c4c8fe">>,
      <<"(2, <db2>):{'db': <db1>}", "c9027bbf333c">>,
      <<"(2, <db2>):{'db': <db2>}", "ae5b052a80b7">>,
      <<"(2, <db2>):{'a': 1, 'b': 1}", "c9ef49023a0a">>,
      <<"(2, <db2>):{'a': 1, 'b': 2}", "896a23ea10c6">>,
      <<"(2, <db2>):{'a': 1, 'b': None}", "39bf41bab789">>,
      <<"(2, <db2>):{'a': 2, 'b': 1}", "6bc19de689e0">>,
      <<"(2, <db2>):{'a': 2, 'b': 2}", "e8715e797938">>,
      <<"(2, <db2>):{'a': 2, 'b': None}", "13fbc8975ff4">>,
      <<"(2, <db2>):{'a': None, 'b': 1}", "8229232b1435">>,
      <<"(2, <db2>):{'a': None, 'b': 2}", "9d31cbda4982">>,
      <<"(2, <db2>):{'a': None, 'b': None}", "6046d8c1cf73">>,
      <<"(2, <db2>):{'a': 1, 'db': None}", "81df9bf5166d">>,
      <<"(2, <db2>):{'a': 1, 'db': <db1>}", "8a5aad3cca92">>,
      <<"(2, <db2>):{'a': 1, 'db': <db2>}", "56be33f52499">>,
      <<"(2, <db2>):{'a': 2, 'db': None}", "c5286b494d1b">>,
      <<"(2, <db2>):{'a': 2, 'db': <db1>}", "7313ab9f7a26">>,
      <<"(2, <db2>):{'a': 2, 'db': <db2>}", "cf20afa5e1e8">>,
      <<"(2, <db2>):{'a': None, 'db': None}", "a4283bb7dc69">>,
      <<"(2, <db2>):{'a': None, 'db': <db1>}", "2bde6aca8f39">>,
      <<"(2, <db2>):{'a': None, 'db': <db2>}", "924ee9d26c4d">>,
      <<"(2, <db2>):{'b': 1, 'a': 1}", "5441d6e21e1b">>,
      <<"(2, <db2>):{'b': 1, 'a': 2}", "13318ecef6c7">>,
      <<"(2, <db2>):{'b': 1, 'a': None}", "f61d1d5045ad">>,
      <<"(2, <db2>):{'b': 2, 'a': 1}", "0bf0e18d6e71">>,
      <<"(2, <db2>):{'b': 2, 'a': 2}", "4339afd68bc7">>,
      <<"(2, <db2>):{'b': 2, 'a': None}", "d86a00e15d2f">>,
      <<"(2, <db2>):{'b': None, 'a': 1}", "b36d6c2ee7d8">>,
      <<"(2, <db2>):{'b': None, 'a': 2}", "cf2dba9e1f5b">>,
      <<"(2, <db2>):{'b': None, 'a': None}", "096087c70924">>,
      <<"(2, <db2>):{'b': 1, 'db': None}", "af6db05bb285">>,
      <<"(2, <db2>):{'b': 1, 'db': <db1>}", "3be63c653161">>,
      <<"(2, <db2>):{'b': 1, 'db': <db2>}", "4a3488719b0d">>,
      <<"(2, <db2>):{'b': 2, 'db': None}", "407de488f44c">>,
      <<"(2, <db2>):{'b': 2, 'db': <db1>}", "6d41874e4c9b">>,
      <<"(2, <db2>):{'b': 2, 'db': <db2>}", "487dd1ef2fb1">>,
      <<"(2, <db2>):{'b': None, 'db': None}", "522fca235a92">>,
      <<"(2, <db2>):{'b': None, 'db': <db1>}", "8e1ae0b1fae1">>,
      <<"(2, <db2>):{'b': None, 'db': <db2>}", "9f929c98ef2d">>,
      <<"(2, <db2>):{'db': None, 'a': 1}", "614bba267e2a">>,
      <<"(2, <db2>):{'db': None, 'a': 2}", "6bd512e56f6a">>,
      <<"(2, <db2>):{'db': None, 'a': None}", "67bbaa945841">>,
      <<"(2, <db2>):{'db': <db1>, 'a': 1}", "91bce8a44d1b">>,
      <<"(2, <db2>):{'db': <db1>, 'a': 2}", "51610630f7f8">>,
      <<"(2, <db2>):{'db': <db1>, 'a': None}", "daa6ef01d73f">>,
      <<"(2, <db2>):{'db': <db2>, 'a': 1}", "dd37ddcfdff3">>,
      <<"(2, <db2>):{'db': <db2>, 'a': 2}", "c2b62f808cf1">>,
      <<"(2, <db2>):{'db': <db2>, 'a': None}", "cbfa16927944">>,
      <<"(2, <db2>):{'db': None, 'b': 1}", "493deda03e86">>,
      <<"(2, <db2>):{'db': None, 'b': 2}", "354eb1377bd4">>,
      <<"(2, <db2>):{'db': None, 'b': None}", "80cd7d6c95c6">>,
      <<"(2, <db2>):{'db': <db1>, 'b': 1}", "422ca7272510">>,
      <<"(2, <db2>):{'db': <db1>, 'b': 2}", "cb543fc19e9b">>,
      <<"(2, <db2>):{'db': <db1>, 'b': None}", "61a2082682f9">>,
      <<"(2, <db2>):{'db': <db2>, 'b': 1}", "3e76758173fc">>,
      <<"(2, <db2>):{'db': <db2>, 'b': 2}", "13bd1738af67">>,
      <<"(2, <db2>):{'db': <db2>, 'b': None}", "8771bea46029">>,
      <<"(None, None):{}", "228d1ec5eabf">>,
      <<"(None, None):{'a': 1}", "145123d7ed36">>,
      <<"(None, None):{'a': 2}", "7f8a9ef87c80">>,
      <<"(None, None):{'a': None}", "415691c5aa5e">>,
      <<"(None, None):{'b': 1}", "31215a931cba">>,
      <<"(None, None):{'b': 2}", "40ac1178b1d4">>,
      <<"(None, None):{'b': None}", "25b769640598">>,
      <<"(None, None):{'db': None}", "15999cd00d45">>,
      <<"(None, None):{'db': <db1>}", "9cf4a1cb2835">>,
      <<"(None, None):{'db': <db2>}", "48dcbdfecc08">>,
      <<"(None, None):{'a': 1, 'b': 1}", "4b53b7737dd1">>,
      <<"(None, None):{'a': 1, 'b': 2}", "10ff69be81d2">>,
      <<"(None, None):{'a': 1, 'b': None}", "f925b59f8b26">>,
      <<"(None, None):{'a': 2, 'b': 1}", "c88da8ce84eb">>,
      <<"(None, None):{'a': 2, 'b': 2}", "5327172d0510">>,
      <<"(None, None):{'a': 2, 'b': None}", "38e628ad9552">>,
      <<"(None, None):{'a': None, 'b': 1}", "439f2947c9eb">>,
      <<"(None, None):{'a': None, 'b': 2}", "5d01f95210c2">>,
      <<"(None, None):{'a': None, 'b': None}", "e20e5f4ec62d">>,
      <<"(None, None):{'a': 1, 'db': None}", "1223888dd891">>,
      <<"(None, None):{'a': 1, 'db': <db1>}", "de1b450d6932">>,
      <<"(None, None):{'a': 1, 'db': <db2>}", "3457bcaeadb7">>,
      <<"(None, None):{'a': 2, 'db': None}", "5efaa3563fc5">>,
      <<"(None, None):{'a': 2, 'db': <db1>}", "29bd092ecee3">>,
      <<"(None, None):{'a': 2, 'db': <db2>}", "35cf5a79e582">>,
      <<"(None, None):{'a': None, 'db': None}", "8d397e5b5073">>,
      <<"(None, None):{'a': None, 'db': <db1>}", "92d089d0d517">>,
      <<"(None, None):{'a': None, 'db': <db2>}", "33408e934873">>,
      <<"(None, None):{'b': 1, 'a': 1}", "9a7aaa645f2a">>,
      <<"(None, None):{'b': 1, 'a': 2}", "600bbf8733a6">>,
      <<"(None, None):{'b': 1, 'a': None}", "9853d94d14dc">>,
      <<"(None, None):{'b': 2, 'a': 1}", "aa28ec19424c">>,
      <<"(None, None):{'b': 2, 'a': 2}", "7b7e33b342f4">>,
      <<"(None, None):{'b': 2, 'a': None}", "da21773499d2">>,
      <<"(None, None):{'b': None, 'a': 1}", "b4dd292cbbea">>,
      <<"(None, None):{'b': None, 'a': 2}", "a0ca07e40c77">>,
      <<"(None, None):{'b': None, 'a': None}", "901b7b7ffff0">>,
      <<"(None, None):{'b': 1, 'db': None}", "c40cc9108bbd">>,
      <<"(None, None):{'b': 1, 'db': <db1>}", "3c1dbb9157bf">>,
      <<"(None, None):{'b': 1, 'db': <db2>}", "76cb2233b827">>,
      <<"(None, None):{'b': 2, 'db': None}", "9766bd93d319">>,
      <<"(None, None):{'b': 2, 'db': <db1>}", "9e8c1d37b9cc">>,
      <<"(None, None):{'b': 2, 'db': <db2>}", "95108c23a555">>,
      <<"(None, None):{'b': None, 'db': None}", "5cad394c9576">>,
      <<"(None, None):{'b': None, 'db': <db1>}", "f8055121cfa6">>,
      <<"(None, None):{'b': None, 'db': <db2>}", "2ffd8011c860">>,
      <<"(None, None):{'db': None, 'a': 1}", "46885371e50d">>,
      <<"(None, None):{'db': None, 'a': 2}", "de09d380222a">>,
      <<"(None, None):{'db': None, 'a': None}", "21636f5d9edd">>,
      <<"(None, None):{'db': <db1>, 'a': 1}", "79ad19ad8129">>,
      <<"(None, None):{'db': <db1>, 'a': 2}", "68e768daf086">>,
      <<"(None, None):{'db': <db1>, 'a': None}", "369fdaedc991">>,
      <<"(None, None):{'db': <db2>, 'a': 1}", "334fe4da7bbd">>,
      <<"(None, None):{'db': <db2>, 'a': 2}", "38cd812e7139">>,
      <<"(None, None):{'db': <db2>, 'a': None}", "22cd049df627">>,
      <<"(None, None):{'db': None, 'b': 1}", "eba992c173cf">>,
      <<"(None, None):{'db': None, 'b': 2}", "da76cb86cc8d">>,
      <<"(None, None):{'db': None, 'b': None}", "5aa6705193c9">>,
      <<"(None, None):{'db': <db1>, 'b': 1}", "b343a3e8f06d">>,
      <<"(None, None):{'db': <db1>, 'b': 2}", "5da5c73240e1">>,
      <<"(None, None):{'db': <db1>, 'b': None}", "92031b44a64e">>,
      <<"(None, None):{'db': <db2>, 'b': 1}", "3758f5a45f9e">>,
      <<"(None, None):{'db': <db2>, 'b': 2}", "1aafba00f4e6">>,
      <<"(None, None):{'db': <db2>, 'b': None}", "93674cb57118">>,
      <<"(None, <db1>):{}", "91f58ab546fd">>,
      <<"(None, <db1>):{'a': 1}", "21b6eec380e3">>,
      <<"(None, <db1>):{'a': 2}", "2d4ace5c8fcc">>,
      <<"(None, <db1>):{'a': None}", "c9b3c3778772">>,
      <<"(None, <db1>):{'b': 1}", "e67b4c82e958">>,
      <<"(None, <db1>):{'b': 2}", "c66c78d74d62">>,
      <<"(None, <db1>):{'b': None}", "735436413c86">>,
      <<"(None, <db1>):{'db': None}", "fd73b0f9248e">>,
      <<"(None, <db1>):{'db': <db1>}", "a668c389a191">>,
      <<"(None, <db1>):{'db': <db2>}", "1a358c44de4f">>,
      <<"(None, <db1>):{'a': 1, 'b': 1}", "2cb01d7e5d5d">>,
      <<"(None, <db1>):{'a': 1, 'b': 2}", "65012b98731e">>,
      <<"(None, <db1>):{'a': 1, 'b': None}", "5a2bea642091">>,
      <<"(None, <db1>):{'a': 2, 'b': 1}", "140817d829c6">>,
      <<"(None, <db1>):{'a': 2, 'b': 2}", "ff0a475d5ed0">>,
      <<"(None, <db1>):{'a': 2, 'b': None}", "288570c7a7aa">>,
      <<"(None, <db1>):{'a': None, 'b': 1}", "e625ce353aa3">>,
      <<"(None, <db1>):{'a': None, 'b': 2}", "5b96e26769ea">>,
      <<"(None, <db1>):{'a': None, 'b': None}", "1ed51bf8678a">>,
      <<"(None, <db1>):{'a': 1, 'db': None}", "851e1251eb59">>,
      <<"(None, <db1>):{'a': 1, 'db': <db1>}", "f2126d087457">>,
      <<"(None, <db1>):{'a': 1, 'db': <db2>}", "c5b08c968bb8">>,
      <<"(None, <db1>):{'a': 2, 'db': None}", "7b35bb4e741c">>,
      <<"(None, <db1>):{'a': 2, 'db': <db1>}", "bc4151e35d71">>,
      <<"(None, <db1>):{'a': 2, 'db': <db2>}", "af52f78a67c3">>,
      <<"(None, <db1>):{'a': None, 'db': None}", "de65ab210d56">>,
      <<"(None, <db1>):{'a': None, 'db': <db1>}", "a09f8f2bc155">>,
      <<"(None, <db1>):{'a': None, 'db': <db2>}", "5a26e31446b9">>,
      <<"(None, <db1>):{'b': 1, 'a': 1}", "c01be2f960e6">>,
      <<"(None, <db1>):{'b': 1, 'a': 2}", "82c1beef4c93">>,
      <<"(None, <db1>):{'b': 1, 'a': None}", "f9307f80793c">>,
      <<"(None, <db1>):{'b': 2, 'a': 1}", "602b290fff41">>,
      <<"(None, <db1>):{'b': 2, 'a': 2}", "53f106569927">>,
      <<"(None, <db1>):{'b': 2, 'a': None}", "aa4f4d1e9bb4">>,
      <<"(None, <db1>):{'b': None, 'a': 1}", "333ac59088f8">>,
      <<"(None, <db1>):{'b': None, 'a': 2}", "aade661fdd65">>,
      <<"(None, <db1>):{'b': None, 'a': None}", "9398b1632026">>,
      <<"(None, <db1>):{'b': 1, 'db': None}", "89fcc439dfec">>,
      <<"(None, <db1>):{'b': 1, 'db': <db1>}", "7ee62dc7eb39">>,
      <<"(None, <db1>):{'b': 1, 'db': <db2>}", "f9ab29913278">>,
      <<"(None, <db1>):{'b': 2, 'db': None}", "b283941b063c">>,
      <<"(None, <db1>):{'b': 2, 'db': <db1>}", "49637fbab8fa">>,
      <<"(None, <db1>):{'b': 2, 'db': <db2>}", "029b356f4159">>,
      <<"(None, <db1>):{'b': None, 'db': None}", "91b7f8790ffa">>,
      <<"(None, <db1>):{'b': None, 'db': <db1>}", "7002fe69b320">>,
      <<"(None, <db1>):{'b': None, 'db': <db2>}", "87da5dec41ab">>,
      <<"(None, <db1>):{'db': None, 'a': 1}", "fcaf6b09a670">>,
      <<"(None, <db1>):{'db': None, 'a': 2}", "4ba988e7b0b2">>,
      <<"(None, <db1>):{'db': None, 'a': None}", "d23395397132">>,
      <<"(None, <db1>):{'db': <db1>, 'a': 1}", "7bbda85213a7">>,
      <<"(None, <db1>):{'db': <db1>, 'a': 2}", "21bc26b1e1fb">>,
      <<"(None, <db1>):{'db': <db1>, 'a': None}", "13e2f24ed61a">>,
      <<"(None, <db1>):{'db': <db2>, 'a': 1}", "c99f657a5bda">>,
      <<"(None, <db1>):{'db': <db2>, 'a': 2}", "1be5e85e8d9c">>,
      <<"(None, <db1>):{'db': <db2>, 'a': None}", "7b7f20e0dad1">>,
      <<"(None, <db1>):{'db': None, 'b': 1}", "305a17d99898">>,
      <<"(None, <db1>):{'db': None, 'b': 2}", "0f25c0a0e62a">>,
      <<"(None, <db1>):{'db': None, 'b': None}", "e8f446121b79">>,
      <<"(None, <db1>):{'db': <db1>, 'b': 1}", "8a88e7b86aad">>,
      <<"(None, <db1>):{'db': <db1>, 'b': 2}", "9cc3a8b03737">>,
      <<"(None, <db1>):{'db': <db1>, 'b': None}", "fe458e401f2d">>,
      <<"(None, <db1>):{'db': <db2>, 'b': 1}", "e75aaec2d8e5">>,
      <<"(None, <db1>):{'db': <db2>, 'b': 2}", "068a4b6bb8f5">>,
      <<"(None, <db1>):{'db': <db2>, 'b': None}", "201ecfd00408">>,
      <<"(None, <db2>):{}", "1fec39943976">>,
      <<"(None, <db2>):{'a': 1}", "11d89fbd6e08">>,
      <<"(None, <db2>):{'a': 2}", "4804a4b08682">>,
      <<"(None, <db2>):{'a': None}", "bbfc653e9d4f">>,
      <<"(None, <db2>):{'b': 1}", "e03644a5254f">>,
      <<"(None, <db2>):{'b': 2}", "0a64f871b356">>,
      <<"(None, <db2>):{'b': None}", "e86aa4a17f16">>,
      <<"(None, <db2>):{'db': None}", "219f5d6d2904">>,
      <<"(None, <db2>):{'db': <db1>}", "0992ed81e378">>,
      <<"(None, <db2>):{'db': <db2>}", "d2640e68589d">>,
      <<"(None, <db2>):{'a': 1, 'b': 1}", "1b23210cddb7">>,
      <<"(None, <db2>):{'a': 1, 'b': 2}", "87962d017f3d">>,
      <<"(None, <db2>):{'a': 1, 'b': None}", "5c224458c0f6">>,
      <<"(None, <db2>):{'a': 2, 'b': 1}", "417d3f29b2b5">>,
      <<"(None, <db2>):{'a': 2, 'b': 2}", "04dbb1335fd7">>,
      <<"(None, <db2>):{'a': 2, 'b': None}", "91308bdf203c">>,
      <<"(None, <db2>):{'a': None, 'b': 1}", "b2cb9cf3867c">>,
      <<"(None, <db2>):{'a': None, 'b': 2}", "f6c6d982b698">>,
      <<"(None, <db2>):{'a': None, 'b': None}", "e5d1e854a937">>,
      <<"(None, <db2>):{'a': 1, 'db': None}", "a789cce098a8">>,
      <<"(None, <db2>):{'a': 1, 'db': <db1>}", "858599c34095">>,
      <<"(None, <db2>):{'a': 1, 'db': <db2>}", "eb2be7c23098">>,
      <<"(None, <db2>):{'a': 2, 'db': None}", "b99618377640">>,
      <<"(None, <db2>):{'a': 2, 'db': <db1>}", "b4e08bfbcffa">>,
      <<"(None, <db2>):{'a': 2, 'db': <db2>}", "1ad6623dff31">>,
      <<"(None, <db2>):{'a': None, 'db': None}", "cbc5772deb20">>,
      <<"(None, <db2>):{'a': None, 'db': <db1>}", "60d1ff0a7570">>,
      <<"(None, <db2>):{'a': None, 'db': <db2>}", "be88411801b4">>,
      <<"(None, <db2>):{'b': 1, 'a': 1}", "6843cfd433e8">>,
      <<"(None, <db2>):{'b': 1, 'a': 2}", "8a55a57852b5">>,
      <<"(None, <db2>):{'b': 1, 'a': None}", "d8be0cfa7ab7">>,
      <<"(None, <db2>):{'b': 2, 'a': 1}", "9e7d020d1504">>,
      <<"(None, <db2>):{'b': 2, 'a': 2}", "a5c0174a588d">>,
      <<"(None, <db2>):{'b': 2, 'a': None}", "706885b8931f">>,
      <<"(None, <db2>):{'b': None, 'a': 1}", "1abee28e6ef1">>,
      <<"(None, <db2>):{'b': None, 'a': 2}", "b8b28371043b">>,
      <<"(None, <db2>):{'b': None, 'a': None}", "5b0efb2bf417">>,
      <<"(None, <db2>):{'b': 1, 'db': None}", "695076ea1b4c">>,
      <<"(None, <db2>):{'b': 1, 'db': <db1>}", "fca15251c699">>,
      <<"(None, <db2>):{'b': 1, 'db': <db2>}", "50b4b7311958">>,
      <<"(None, <db2>):{'b': 2, 'db': None}", "893eea1d3136">>,
      <<"(None, <db2>):{'b': 2, 'db': <db1>}", "1f3b85fea6a3">>,
      <<"(None, <db2>):{'b': 2, 'db': <db2>}", "0df79a806c70">>,
      <<"(None, <db2>):{'b': None, 'db': None}", "458bc0da8316">>,
      <<"(None, <db2>):{'b': None, 'db': <db1>}", "b2fdaf2e85cd">>,
      <<"(None, <db2>):{'b': None, 'db': <db2>}", "8e782a8e8c65">>,
      <<"(None, <db2>):{'db': None, 'a': 1}", "665cedf223ba">>,
      <<"(None, <db2>):{'db': None, 'a': 2}", "3806532aa01f">>,
      <<"(None, <db2>):{'db': None, 'a': None}", "a79aa5d9a088">>,
      <<"(None, <db2>):{'db': <db1>, 'a': 1}", "4686678f57d4">>,
      <<"(None, <db2>):{'db': <db1>, 'a': 2}", "92cc99557cf2">>,
      <<"(None, <db2>):{'db': <db1>, 'a': None}", "5d6bc62f0f71">>,
      <<"(None, <db2>):{'db': <db2>, 'a': 1}", "ac2c7faabf66">>,
      <<"(None, <db2>):{'db': <db2>, 'a': 2}", "e87dd78b1fee">>,
      <<"(None, <db2>):{'db': <db2>, 'a': None}", "9e49c3ba7107">>,
      <<"(None, <db2>):{'db': None, 'b': 1}", "8364040d0eef">>,
      <<"(None, <db2>):{'db': None, 'b': 2}", "2a20b6ff9190">>,
      <<"(None, <db2>):{'db': None, 'b': None}", "ff0cc86c390c">>,
      <<"(None, <db2>):{'db': <db1>, 'b': 1}", "6e24daf4f2f8">>,
      <<"(None, <db2>):{'db': <db1>, 'b': 2}", "ffaa18908ac2">>,
      <<"(None, <db2>):{'db': <db1>, 'b': None}", "04e37efc422b">>,
      <<"(None, <db2>):{'db': <db2>, 'b': 1}", "59e4d2dd38de">>,
      <<"(None, <db2>):{'db': <db2>, 'b': 2}", "04b243b2f928">>,
      <<"(None, <db2>):{'db': <db2>, 'b': None}", "9e27d03fefff">>
    }

Md5Hex12(s) == (CHOOSE p \in Md5Table : p[1] = s)[2]

\* generate_cache_key (cache.py:16-26).
generate_cache_key(func_name, args, kwargs) ==
    func_name \o ":" \o Md5Hex12(RawKey(args, kwargs))

(***************************************************************************)
(* JSON (json.dumps / json.loads, cache.py:56,63) on the values handlers   *)
(* return in the model                                                     *)
(***************************************************************************)

\* A value json.dumps cannot encode (an ORM row, a pydantic model, ...).
Unserializable == "<object>"

\* Return values of the wrapped function: JSON-native ones (four of them
\* falsy), a tuple, and one that json.dumps rejects.
Results == {"None", "0", "''", "[]", "{'n': 1}", "(1, 2)", Unserializable}

\* json.dumps raises TypeError on these.
JsonDumpsRaises(v) == v = Unserializable

\* json.dumps(v): a tuple is written as a JSON array.
JsonDumps(v) ==
    CASE v = "None"     -> "null"
      [] v = "0"        -> "0"
      [] v = "''"       -> "\"\""
      [] v = "[]"       -> "[]"
      [] v = "{'n': 1}" -> "{\"n\": 1}"
      [] v = "(1, 2)"   -> "[1, 2]"
      [] v = "[1, 2]"   -> "[1, 2]"

\* A string a foreign writer may have left under a key: not a JSON document.
Garbage == "not json"

\* Texts json.loads accepts; on any other it raises JSONDecodeError.
JsonTexts == {"null", "0", "\"\"", "[]", "{\"n\": 1}", "[1, 2]"}

\* json.loads(s): a JSON array is read as a list.
JsonLoads(s) ==
    CASE s = "null"          -> "None"
      [] s = "0"             -> "0"
      [] s = "\"\""          -> "''"
      [] s = "[]"            -> "[]"
      [] s = "{\"n\": 1}"    -> "{'n': 1}"
      [] s = "[1, 2]"        -> "[1, 2]"

\* Mutation: a falsy document (null, 0, "", []) is not served as a hit.
IsHitFalsyMiss(cached_value) ==
    cached_value \notin {None, "", "null", "0", "\"\"", "[]"}

\* `if cached_value:` (cache.py:55): the value read is a non-empty str.
IsHit(cached_value) == cached_value # None /\ cached_value # ""

(***************************************************************************)
(* Exceptions                                                              *)
(***************************************************************************)

\* Raised by the store adapter or by the code around it; all derive from
\* Exception.
StoreErrors == {"ConnectionError"}
ExceptionSubclasses ==
    StoreErrors \cup {"AttributeError", "TypeError", "JSONDecodeError", "HTTPException"}

\* Raised by the wrapped function.
FuncErrors == {"HTTPException"}

\* Mutation: only connection errors are caught.
CaughtConnectionOnly(exc) == exc = "ConnectionError"

\* `except Exception:` (cache.py:57,64; clear.py:48).
Caught(exc) == exc \in ExceptionSubclasses

(***************************************************************************)
(* The aiocache RedisCache adapter configured by client.py:15-27           *)
(***************************************************************************)

\* RedisCacheInit(namespace=...): "main" by default (client.py:6), or none.
AdapterNamespaces == {"main", None}

\* The key the adapter uses in Redis for `key`: its namespace, a colon, the
\* key ("namespace": self.namespace, client.py:21).
build_key(ns, key) == IF ns = None THEN key ELSE ns \o ":" \o key

\* s starts with prefix p.
StartsWith(s, p) == Len(s) >= Len(p) /\ SubSeq(s, 1, Len(p)) = p

\* KEYS pattern match for f"{namespace}:*" (clear.py:35,41).
MatchesPattern(rk, namespace) == StartsWith(rk, namespace \o ":")

\* Mutation: the write replaces the content of the store.
PutAlone(st, rk, e) == [k \in {rk} |-> e]

Put(st, rk, e) == [k \in DOMAIN st \cup {rk} |-> IF k = rk THEN e ELSE st[k]]
Drop(st, rk) == [k \in DOMAIN st \ {rk} |-> st[k]]
EmptyStore == [k \in {} |-> None]

(***************************************************************************)
(* Decorated handlers and their calls                                      *)
(***************************************************************************)

\* expire: int = 60 (cache.py:29).
DefaultExpire == 60

\* A use of @cache(expire, key, namespace) on a function named func.
Handler(func, key, namespace) ==
    [func |-> func, expire |-> DefaultExpire, key |-> key, namespace |-> namespace]

\* Applications: the handlers one program decorates.
AppExplicit ==
    {Handler("f", "a", "ns"), Handler("f", "b", "ns"), Handler("f", "other:c", None)}
AppKeyed == {Handler("f", "a", "ns"), Handler("f", "other:c", None)}
AppDerived == {Handler("f", None, None)}
AppDerivedNs == {Handler("f", None, "ns")}
AppEmpty == {Handler("f", "", "ns"), Handler("f", "k", "")}
Apps == {AppKeyed, AppDerived, AppDerivedNs, AppEmpty}

\* Arguments of the calls: <<args, kwargs>>.
CallInputs ==
    { << <<"1">>, <<>> >>,
      << <<>>, << <<"a", "2">>, <<"db", "<db1>">> >> >> }

\* Nothing returned / no exception.
NoValue == "<no value>"

VARIABLES
    init_namespace,     \* RedisCacheInit.namespace (client.py:9)
    init_cache,         \* RedisCacheInit.cache (client.py:11)
    cache_redis_cache,  \* the global redis_cache of cache.py (cache.py:8)
    clear_redis_cache,  \* the global redis_cache of clear.py (clear.py:3)
    app,                \* the decorated handlers of the program
    store,              \* Redis: raw key -> entry written through the adapter
    calls,              \* activations of wrapper, by slot
    clr,                \* the activation of clear_cache
    kd                  \* two key derivations side by side

vars ==
    <<init_namespace, init_cache, cache_redis_cache, clear_redis_cache, app,
      store, calls, clr, kd>>

\* Concurrent activations of wrapper.
MaxCalls == 2
Slots == 1..MaxCalls

\* The slot used when calls follow one another.
SeqSlots == {1}

IdleCall ==
    [pc |-> "idle", w |-> None, args |-> <<>>, kwargs |-> <<>>, final_key |-> None,
     gets |-> <<>>, sets |-> <<>>, log |-> <<>>, f_calls |-> 0, f_args |-> <<>>,
     response |-> NoValue, f_raised |-> None, returned |-> NoValue, raised |-> None,
     handle |-> None, served |-> NoValue]

\* Mutation: the namespace is appended instead of prefixed.
FinalKeySuffixNs(w, args, kwargs) ==
    LET base == IF Truthy(w.key) THEN w.key
                ELSE generate_cache_key(w.func, args, kwargs)
    IN  IF Truthy(w.namespace) THEN base \o ":" \o w.namespace ELSE base

\* final_key as built by the wrapper (cache.py:45-51).
FinalKey(w, args, kwargs) ==
    LET base == IF Truthy(w.key) THEN w.key
                ELSE generate_cache_key(w.func, args, kwargs)
    IN  IF Truthy(w.namespace) THEN w.namespace \o ":" \o base ELSE base

\* Outcomes of one store operation: it completes, or raises.
OpOutcomes == {"ok"} \cup StoreErrors

\* What redis_cache.get may hand back besides the entry: a foreign string.
GetOutcomes == OpOutcomes \cup {"garbage"}

\* json.loads(cached_value) (cache.py:56).
Decode(cached_value) == JsonLoads(cached_value)

\* Mutation: the handle is not checked on entry.
UnavailableNever == FALSE

\* `if redis_cache is None:` (cache.py:42).
Unavailable == cache_redis_cache = None

\* Mutation: the exception of func is swallowed and None is returned.
AfterFuncRaiseSwallowed(cur, e) ==
    [cur EXCEPT !.pc = "done", !.f_calls = @ + 1, !.f_args = <<cur.args, cur.kwargs>>,
                !.f_raised = e, !.returned = "None"]

\* `await func(*args, **kwargs)` raises e: no try block encloses the call
\* (cache.py:43,60), so wrapper ends with e.
AfterFuncRaise(cur, e) ==
    [cur EXCEPT !.pc = "done", !.f_calls = @ + 1, !.f_args = <<cur.args, cur.kwargs>>,
                !.f_raised = e, !.raised = e]

\* Mutation: set is given the base key, without the namespace.
SetKeyBase(c) ==
    IF Truthy(calls[c].w.key) THEN calls[c].w.key
    ELSE generate_cache_key(calls[c].w.func, calls[c].args, calls[c].kwargs)

\* The key passed to set: the local final_key (cache.py:63).
SetKey(c) == calls[c].final_key

\* wrapper, from its entry to the completion of redis_cache.get
\* (cache.py:40-58): returns on a hit, else goes on to call func.
wrapper_get(c, w, inp, out) ==
    /\ calls[c].pc \in {"idle", "done"}
    /\ w \in app
    /\ LET args == inp[1]
           kwargs == inp[2]
           begun == [IdleCall EXCEPT !.w = w, !.args = args, !.kwargs = kwargs,
                                     !.handle = cache_redis_cache]
       IN  IF Unavailable
           THEN /\ out = "ok"
                /\ calls' = [calls EXCEPT ![c] = [begun EXCEPT !.pc = "func_direct"]]
           ELSE LET final_key == FinalKey(w, args, kwargs)
                    rk == build_key(init_namespace, final_key)
                    asked == [begun EXCEPT !.final_key = final_key,
                                           !.gets = IF cache_redis_cache = None THEN <<>>
                                                    ELSE <<final_key>>]
                    cached_value ==
                        IF out = "garbage" THEN Garbage
                        ELSE IF rk \in DOMAIN store THEN store[rk].value ELSE None
                    failed == IF cache_redis_cache = None THEN "AttributeError"
                              ELSE IF out \in StoreErrors THEN out
                              ELSE IF IsHit(cached_value) /\ cached_value \notin JsonTexts
                                   THEN "JSONDecodeError"
                                   ELSE None
                IN  calls' = [calls EXCEPT ![c] =
                        IF failed # None
                        THEN IF Caught(failed)
                             THEN [asked EXCEPT !.pc = "func",
                                                !.log = <<"Redis GET failed">>]
                             ELSE [asked EXCEPT !.pc = "done", !.raised = failed]
                        ELSE IF IsHit(cached_value)
                             THEN [asked EXCEPT !.pc = "done",
                                                !.returned = Decode(cached_value),
                                                !.served = store[rk].res]
                             ELSE [asked EXCEPT !.pc = "func"]]
    /\ UNCHANGED <<init_namespace, init_cache, cache_redis_cache, clear_redis_cache,
                   app, store, clr, kd>>

\* func returns r (cache.py:43 and 60-63): without a store the result is
\* returned; else it is encoded and redis_cache.set is awaited.
func_return(c, r) ==
    /\ calls[c].pc \in {"func", "func_direct"}
    /\ LET cur == calls[c]
           ran == [cur EXCEPT !.f_calls = @ + 1,
                              !.f_args = <<cur.args, cur.kwargs>>,
                              !.response = r]
           failed == IF cache_redis_cache = None THEN "AttributeError"
                     ELSE IF JsonDumpsRaises(r) THEN "TypeError"
                     ELSE None
       IN  calls' = [calls EXCEPT ![c] =
               IF cur.pc = "func_direct"
               THEN [ran EXCEPT !.pc = "done", !.returned = r]
               ELSE IF failed # None
                    THEN IF Caught(failed)
                         THEN [ran EXCEPT !.pc = "done", !.returned = r,
                                          !.log = Append(@, "Redis SET failed")]
                         ELSE [ran EXCEPT !.pc = "done", !.raised = failed]
                    ELSE [ran EXCEPT !.pc = "set",
                                     !.sets = << <<SetKey(c), JsonDumps(r), cur.w.expire>> >>]]
    /\ UNCHANGED <<init_namespace, init_cache, cache_redis_cache, clear_redis_cache,
                   app, store, clr, kd>>

\* func raises e: nothing catches it (cache.py:43,60).
func_raise(c, e) ==
    /\ calls[c].pc \in {"func", "func_direct"}
    /\ calls' = [calls EXCEPT ![c] = AfterFuncRaise(calls[c], e)]
    /\ UNCHANGED <<init_namespace, init_cache, cache_redis_cache, clear_redis_cache,
                   app, store, clr, kd>>

\* redis_cache.set completes or raises, and wrapper returns response
\* (cache.py:62-67).
set_complete(c, out) ==
    /\ calls[c].pc = "set"
    /\ LET cur == calls[c]
           req == cur.sets[1]
           rk == build_key(init_namespace, req[1])
           entry == [value |-> req[2], ttl |-> req[3], res |-> cur.response]
       IN  IF out = "ok"
           THEN /\ store' = Put(store, rk, entry)
                /\ calls' = [calls EXCEPT ![c] =
                        [cur EXCEPT !.pc = "done", !.returned = cur.response]]
           ELSE /\ store' = store
                /\ calls' = [calls EXCEPT ![c] =
                        IF Caught(out)
                        THEN [cur EXCEPT !.pc = "done", !.returned = cur.response,
                                         !.log = Append(@, "Redis SET failed")]
                        ELSE [cur EXCEPT !.pc = "done", !.raised = out]]
    /\ UNCHANGED <<init_namespace, init_cache, cache_redis_cache, clear_redis_cache,
                   app, clr, kd>>

\* Redis drops an entry whose ttl has run out.
expire_entry(rk) ==
    /\ rk \in DOMAIN store
    /\ store' = Drop(store, rk)
    /\ UNCHANGED <<init_namespace, init_cache, cache_redis_cache, clear_redis_cache,
                   app, calls, clr, kd>>

\* set_redis_instance of cache.py (cache.py:11-13).
cache_set_redis_instance(redis_instance) ==
    /\ cache_redis_cache' = redis_instance
    /\ UNCHANGED <<init_namespace, init_cache, clear_redis_cache, app, store, calls,
                   clr, kd>>

\* set_redis_instance of clear.py (clear.py:6-8).
clear_set_redis_instance(redis_instance) ==
    /\ clear_redis_cache' = redis_instance
    /\ UNCHANGED <<init_namespace, init_cache, cache_redis_cache, app, store, calls,
                   clr, kd>>

\* RedisCacheInit.initialize (client.py:13-40): configure, probe with one
\* get("test"); both may fail, and then self.cache is None.
initialize(configured, probe) ==
    /\ init_cache' = IF configured /\ probe = "ok" THEN Adapter ELSE None
    /\ UNCHANGED <<init_namespace, cache_redis_cache, clear_redis_cache, app, store,
                   calls, clr, kd>>

(***************************************************************************)
(* clear_cache (clear.py:11-49)                                            *)
(***************************************************************************)

\* What getattr(redis_cache, "client", getattr(redis_cache, "_client", None))
\* finds, by the installed aiocache/redis build (clear.py:36-42): no raw
\* client, one whose keys() returns bytes, or one that returns str (on which
\* k.decode raises AttributeError).
RawClients == {"absent", "bytes", "str"}

IdleClear ==
    [pc |-> "idle", key |-> None, namespace |-> None, keys_to_delete |-> {},
     pending |-> {}, ops |-> <<>>, raised |-> None, swallowed |-> None]

\* clear_cache returns; an exception raised inside the try block is caught
\* by `except Exception: pass` (clear.py:48-49).
ClearDone(cur, exc) ==
    IF exc = None THEN [cur EXCEPT !.pc = "done", !.pending = {}]
    ELSE IF Caught(exc) THEN [cur EXCEPT !.pc = "done", !.pending = {}, !.swallowed = exc]
    ELSE [cur EXCEPT !.pc = "done", !.pending = {}, !.raised = exc]

\* namespaced_key = f"{namespace}:{key}" (clear.py:26).
NamespacedKey(key, namespace) == namespace \o ":" \o key

\* The branch clear_cache takes (clear.py:25,30,34,47).
ClearMode(key, namespace) ==
    IF Truthy(key) /\ Truthy(namespace) THEN "namespaced_key"
    ELSE IF Truthy(key) THEN "key"
    ELSE IF Truthy(namespace) THEN "namespace"
    ELSE "clear"

\* Mutation: the handle is not checked before the store is used.
ClearUnavailableNever == FALSE

\* `if redis_cache is None: return` (clear.py:22).
ClearUnavailable == clear_redis_cache = None

\* clear_cache from its entry to the completion of its first store
\* operation (clear.py:22-47): a delete, the key enumeration, or clear().
clear_cache(key, namespace, raw, out) ==
    /\ clr.pc \in {"idle", "done"}
    /\ LET begun == [IdleClear EXCEPT !.key = key, !.namespace = namespace]
           mode == ClearMode(key, namespace)
           target == IF mode = "namespaced_key" THEN NamespacedKey(key, namespace)
                     ELSE key
           pattern == namespace \o ":*"
           key_list == {rk \in DOMAIN store : MatchesPattern(rk, namespace)}
           failed == IF clear_redis_cache = None THEN "AttributeError"
                     ELSE IF out # "ok" THEN out
                     ELSE None
       IN  IF ClearUnavailable
           THEN /\ out = "ok"
                /\ clr' = ClearDone(begun, None)
                /\ store' = store
           ELSE IF mode \in {"namespaced_key", "key"}
           THEN LET did == [begun EXCEPT !.ops = << <<"delete", target>> >>]
                IN  /\ clr' = ClearDone(did, failed)
                    /\ store' = IF failed = None
                                THEN Drop(store, build_key(init_namespace, target))
                                ELSE store
           ELSE IF mode = "namespace"
           THEN IF raw = "absent"
                THEN /\ out = "ok"
                     /\ clr' = ClearDone(begun, None)
                     /\ store' = store
                ELSE LET did == [begun EXCEPT !.ops = << <<"keys", pattern>> >>]
                     IN  /\ store' = store
                         /\ clr' =
                              IF failed # None THEN ClearDone(did, failed)
                              ELSE IF key_list = {} THEN ClearDone(did, None)
                              ELSE IF raw = "str" THEN ClearDone(did, "AttributeError")
                              ELSE [did EXCEPT !.pc = "deleting", !.keys_to_delete = key_list,
                                               !.pending = key_list]
           ELSE LET did == [begun EXCEPT !.ops = << <<"clear", None>> >>]
                IN  /\ clr' = ClearDone(did, failed)
                    /\ store' = IF failed = None THEN EmptyStore ELSE store
    /\ UNCHANGED <<init_namespace, init_cache, cache_redis_cache, clear_redis_cache,
                   app, calls, kd>>

\* One turn of `for key_to_delete in keys_to_delete:
\*     await redis_cache.delete(key_to_delete)` (clear.py:44-46).
clear_delete(key_to_delete, out) ==
    /\ clr.pc = "deleting"
    /\ key_to_delete \in clr.pending
    /\ LET did == IF clear_redis_cache = None THEN clr
                  ELSE [clr EXCEPT !.ops = Append(@, <<"delete", key_to_delete>>)]
           failed == IF clear_redis_cache = None THEN "AttributeError"
                     ELSE IF out # "ok" THEN out
                     ELSE None
           left == clr.pending \ {key_to_delete}
       IN  /\ clr' = IF failed # None THEN ClearDone(did, failed)
                     ELSE IF left = {} THEN ClearDone(did, None)
                     ELSE [did EXCEPT !.pending = left]
           /\ store' = IF failed = None
                       THEN Drop(store, build_key(init_namespace, key_to_delete))
                       ELSE store
    /\ UNCHANGED <<init_namespace, init_cache, cache_redis_cache, clear_redis_cache,
                   app, calls, kd>>

\* Arguments clear_cache is called with.
ClearKeys == {None, "", "a", "other:c", "k"}
ClearNamespaces == {None, "", "ns", "main"}

(***************************************************************************)
(* Key derivation on its own                                               *)
(***************************************************************************)

\* The signature of the function called in the key-derivation runs:
\* def f(a=None, db=None, *, b=None); positional arguments bind in order.
Params == <<"a", "db">>

ValuesOf(name) == IF name = "db" THEN {"None", "<db1>", "<db2>"} ELSE {"1", "2", "None"}

ArgTuples ==
    {<<>>} \cup {<<a>> : a \in ValuesOf("a")}
           \cup {<<a, d>> : a \in ValuesOf("a"), d \in ValuesOf("db")}

KwNames == {"a", "b", "db"}

\* Keyword arguments per call in the key-derivation runs.
MaxKwargs == 2

KwSeqs ==
    UNION {[1..n -> {p \in KwNames \X {"1", "2", "None", "<db1>", "<db2>"} :
                        p[2] \in ValuesOf(p[1])}] : n \in 0..MaxKwargs}

NamesOf(kwargs) == {kwargs[i][1] : i \in 1..Len(kwargs)}

\* A call Python accepts: values of the right kind, no name given twice.
ValidCall(args, kwargs) ==
    /\ Cardinality(NamesOf(kwargs)) = Len(kwargs)
    /\ \A i \in 1..Len(kwargs) : kwargs[i][2] \in ValuesOf(kwargs[i][1])
    /\ \A i \in 1..Len(args) : Params[i] \notin NamesOf(kwargs)

KeyCalls == {c \in ArgTuples \X KwSeqs : ValidCall(c[1], c[2])}

NoKd == [c1 |-> << <<>>, <<>> >>, c2 |-> << <<>>, <<>> >>, key1 |-> None, key2 |-> None]

\* generate_cache_key("f", ...) applied to both calls (cache.py:48).
derive_keys ==
    /\ kd.key1 = None
    /\ kd' = [kd EXCEPT !.key1 = generate_cache_key("f", kd.c1[1], kd.c1[2]),
                        !.key2 = generate_cache_key("f", kd.c2[1], kd.c2[2])]
    /\ UNCHANGED <<init_namespace, init_cache, cache_redis_cache, clear_redis_cache,
                   app, store, calls, clr>>

(***************************************************************************)
(* Specifications                                                          *)
(***************************************************************************)

\* After import and RedisCacheInit(...): no handle set, nothing cached.
InitOf(apps) ==
    /\ init_namespace \in AdapterNamespaces
    /\ init_cache = None
    /\ cache_redis_cache = None
    /\ clear_redis_cache = None
    /\ app \in apps
    /\ store = EmptyStore
    /\ calls = [c \in Slots |-> IdleCall]
    /\ clr = IdleClear
    /\ kd = [NoKd EXCEPT !.key1 = "-", !.key2 = "-"]

\* The decorator alone: calls of the handlers, the handle of cache.py,
\* expiry.
InitCache == InitOf(Apps)

NextCache ==
    \/ \E x \in {Adapter, None} : cache_set_redis_instance(x)
    \/ \E c \in SeqSlots, w \in app, inp \in CallInputs, out \in GetOutcomes :
           wrapper_get(c, w, inp, out)
    \/ \E c \in SeqSlots, r \in Results : func_return(c, r)
    \/ \E c \in SeqSlots, e \in FuncErrors : func_raise(c, e)
    \/ \E c \in SeqSlots, out \in OpOutcomes : set_complete(c, out)
    \/ \E rk \in DOMAIN store : expire_entry(rk)

SpecCache == InitCache /\ [][NextCache]_vars

\* The whole library: initialization, both handles, handler calls one at a
\* time, expiry and clear_cache, whose steps interleave with the rest.
SystemApps == {AppExplicit, AppDerivedNs}
SystemInputs == { << <<"1">>, <<>> >> }
SystemResults == {"None", "(1, 2)"}
SystemClearKeys == {None, "a"}
SystemClearNamespaces == {None, "ns"}

\* Calls of clear_cache; raw matters in the namespace branch only.
ClearCallsOf(keys, namespaces) ==
    {cc \in keys \X namespaces \X RawClients \X OpOutcomes :
        ClearMode(cc[1], cc[2]) # "namespace" => cc[3] = "bytes"}

Init == InitOf(SystemApps)

Next ==
    \/ \E configured \in BOOLEAN, probe \in OpOutcomes : initialize(configured, probe)
    \/ \E x \in {init_cache, None} : cache_set_redis_instance(x)
    \/ \E x \in {init_cache, None} : clear_set_redis_instance(x)
    \/ \E c \in SeqSlots, w \in app, inp \in SystemInputs : wrapper_get(c, w, inp, "ok")
    \/ \E c \in SeqSlots, r \in SystemResults : func_return(c, r)
    \/ \E c \in SeqSlots, e \in FuncErrors : func_raise(c, e)
    \/ \E c \in SeqSlots : set_complete(c, "ok")
    \/ \E rk \in DOMAIN store : expire_entry(rk)
    \/ \E cc \in ClearCallsOf(SystemClearKeys, SystemClearNamespaces) :
           clear_cache(cc[1], cc[2], cc[3], cc[4])
    \/ \E k \in clr.pending, out \in OpOutcomes : clear_delete(k, out)

Spec == Init /\ [][Next]_vars

\* clear_cache alone, with every argument combination, over a store that
\* holds any of the entries the handlers below write.
ClearApps == AppExplicit \cup AppEmpty

WrittenKeys == {FinalKey(w, inp[1], inp[2]) : w \in ClearApps, inp \in SystemInputs}

\* The store after the handlers wrote None under each key of keys.
StoreWith(ns, keys) ==
    [rk \in {build_key(ns, k) : k \in keys} |->
        [value |-> JsonDumps("None"), ttl |-> DefaultExpire, res |-> "None"]]

InitClear ==
    /\ init_namespace \in AdapterNamespaces
    /\ init_cache = Adapter
    /\ cache_redis_cache = Adapter
    /\ clear_redis_cache \in {Adapter, None}
    /\ app = ClearApps
    /\ store \in {StoreWith(init_namespace, keys) : keys \in SUBSET WrittenKeys}
    /\ calls = [c \in Slots |-> IdleCall]
    /\ clr = IdleClear
    /\ kd = [NoKd EXCEPT !.key1 = "-", !.key2 = "-"]

NextClear ==
    \/ \E x \in {Adapter, None} : clear_set_redis_instance(x)
    \/ \E cc \in ClearCallsOf(ClearKeys, ClearNamespaces) :
           clear_cache(cc[1], cc[2], cc[3], cc[4])
    \/ \E k \in clr.pending, out \in OpOutcomes : clear_delete(k, out)

SpecClear == InitClear /\ [][NextClear]_vars

\* The key deriver alone, on every pair of calls.
InitKey ==
    /\ init_namespace = "main"
    /\ init_cache = None
    /\ cache_redis_cache = None
    /\ clear_redis_cache = None
    /\ app = AppDerived
    /\ store = EmptyStore
    /\ calls = [c \in Slots |-> IdleCall]
    /\ clr = IdleClear
    /\ kd \in {[NoKd EXCEPT !.c1 = c1, !.c2 = c2] : c1 \in KeyCalls, c2 \in KeyCalls}

NextKey == derive_keys

SpecKey == InitKey /\ [][NextKey]_vars

\* Concurrent handler calls on a reachable store, with nothing that removes
\* entries: both handles hold the adapter and every store operation succeeds.
RaceApps == {AppKeyed, AppDerived}
RaceResults == {"0", "[]", Unserializable}

InitRace ==
    /\ init_namespace \in AdapterNamespaces
    /\ init_cache = Adapter
    /\ cache_redis_cache = Adapter
    /\ clear_redis_cache = Adapter
    /\ app \in RaceApps
    /\ store = EmptyStore
    /\ calls = [c \in Slots |-> IdleCall]
    /\ clr = IdleClear
    /\ kd = [NoKd EXCEPT !.key1 = "-", !.key2 = "-"]

NextRace ==
    \/ \E c \in Slots, w \in app, inp \in SystemInputs : wrapper_get(c, w, inp, "ok")
    \/ \E c \in Slots, r \in RaceResults : func_return(c, r)
    \/ \E c \in Slots : set_complete(c, "ok")

SpecRace == InitRace /\ [][NextRace]_vars

\* Namespace invalidation under way while a handler call reads and writes:
\* both handles hold the adapter; clear_cache is given a namespace only.
SweepNamespaces == {"ns", "main"}

InitSweep ==
    /\ init_namespace \in AdapterNamespaces
    /\ init_cache = Adapter
    /\ cache_redis_cache = Adapter
    /\ clear_redis_cache = Adapter
    /\ app = AppExplicit
    /\ store = EmptyStore
    /\ calls = [c \in Slots |-> IdleCall]
    /\ clr = IdleClear
    /\ kd = [NoKd EXCEPT !.key1 = "-", !.key2 = "-"]

NextSweep ==
    \/ \E c \in SeqSlots, w \in app, inp \in SystemInputs : wrapper_get(c, w, inp, "ok")
    \/ \E c \in SeqSlots, r \in SystemResults : func_return(c, r)
    \/ \E c \in SeqSlots : set_complete(c, "ok")
    \/ \E n \in SweepNamespaces : clear_cache(None, n, "bytes", "ok")
    \/ \E k \in clr.pending, out \in OpOutcomes : clear_delete(k, out)

SpecSweep == InitSweep /\ [][NextSweep]_vars

\* One invalidation that begins while handler calls are in flight: calls
\* begin (and read their key) only before clear_cache is called, and
\* clear_cache is called once, when some call is between its get and the
\* completion of its set.
FlightKeys == {None, "a", "other:c"}
FlightNamespaces == {None, "ns"}

InitInFlight ==
    /\ init_namespace \in AdapterNamespaces
    /\ init_cache = Adapter
    /\ cache_redis_cache = Adapter
    /\ clear_redis_cache = Adapter
    /\ app = AppKeyed
    /\ store = EmptyStore
    /\ calls = [c \in Slots |-> IdleCall]
    /\ clr = IdleClear
    /\ kd = [NoKd EXCEPT !.key1 = "-", !.key2 = "-"]

NextInFlight ==
    \/ /\ clr.pc = "idle"
       /\ \E c \in Slots, w \in app, inp \in SystemInputs : wrapper_get(c, w, inp, "ok")
    \/ \E c \in Slots, r \in RaceResults : func_return(c, r)
    \/ \E c \in Slots, out \in OpOutcomes : set_complete(c, out)
    \/ /\ clr.pc = "idle"
       /\ \E c \in Slots : calls[c].pc \in {"func", "set"}
       /\ \E cc \in ClearCallsOf(FlightKeys, FlightNamespaces) :
              clear_cache(cc[1], cc[2], cc[3], cc[4])
    \/ \E k \in clr.pending, out \in OpOutcomes : clear_delete(k, out)

SpecInFlight == InitInFlight /\ [][NextInFlight]_vars

\* Distinct wrapped callables: a callable is a function object, known by
\* the module that defines it and its __name__; two modules may each define
\* a function named "get". The decorator reads func.__name__ only
\* (cache.py:48).
Callable(module, func) ==
    [module |-> module, func |-> func, expire |-> DefaultExpire,
     key |-> None, namespace |-> None]

AppNames == {Callable("users", "get"), Callable("items", "get"), Callable("items", "list")}

\* What each callable returns: a value no other callable returns.
ResultOf(w) ==
    IF w.module = "users" THEN "0"
    ELSE IF w.func = "get" THEN "[]" ELSE "{'n': 1}"

InitNames ==
    /\ init_namespace \in AdapterNamespaces
    /\ init_cache = Adapter
    /\ cache_redis_cache = Adapter
    /\ clear_redis_cache = Adapter
    /\ app = AppNames
    /\ store = EmptyStore
    /\ calls = [c \in Slots |-> IdleCall]
    /\ clr = IdleClear
    /\ kd = [NoKd EXCEPT !.key1 = "-", !.key2 = "-"]

NextNames ==
    \/ \E c \in SeqSlots, w \in app, inp \in CallInputs : wrapper_get(c, w, inp, "ok")
    \/ \E c \in SeqSlots : func_return(c, ResultOf(calls[c].w))
    \/ \E c \in SeqSlots : set_complete(c, "ok")
    \/ \E rk \in DOMAIN store : expire_entry(rk)

SpecNames == InitNames /\ [][NextNames]_vars

\* clear_cache with no handler call overlapping the deletions of a namespace.
NextQuiet == Next /\ (clr.pc = "deleting" => UNCHANGED calls)

SpecQuiet == Init /\ [][NextQuiet]_vars

(***************************************************************************)
(* Properties                                                              *)
(***************************************************************************)

\* The key under which the adapter keeps the entry the library calls k.
RawOf(k) == build_key(init_namespace, k)

\* Slot c holds a call that ended after a successful set of its result.
Stored(c) ==
    /\ calls[c].pc = "done"
    /\ calls[c].sets # <<>>
    /\ calls[c].log = <<>>
    /\ calls[c].returned = calls[c].response
    /\ RawOf(calls[c].sets[1][1]) \in DOMAIN store
    /\ store[RawOf(calls[c].sets[1][1])].value = calls[c].sets[1][2]

\* The step starts, in slot c, a call with the arguments of the call that
\* just ended there, and its get succeeds.
Repeated(c) ==
    /\ calls[c].pc = "done"
    /\ calls'[c] # calls[c]
    /\ calls'[c].w = calls[c].w
    /\ calls'[c].args = calls[c].args
    /\ calls'[c].kwargs = calls[c].kwargs
    /\ calls'[c].gets # <<>>
    /\ calls'[c].log = <<>>

\* A call that found no entry: the handle was set, the get succeeded and
\* returned nothing, and func returned.
MissedAndReturned(c) ==
    /\ calls[c].pc = "done"
    /\ calls[c].gets # <<>>
    /\ calls[c].served = NoValue
    /\ calls[c].f_raised = None

\* Results that json.loads(json.dumps(R)) gives back equal to R.
JsonNative == {"None", "0", "''", "[]", "{'n': 1}"}

\* What a caller gets for R after the entry was written and read back.
ReadBack(R) == IF R \in JsonNative THEN R ELSE "[1, 2]"

\* C1 as claimed: a call that finds no entry invokes f once and returns its
\* result R, and a following identical call, with the entry still there and
\* the get succeeding, returns R itself without invoking f, for every R that
\* json.dumps accepts.
C1_AsClaimed ==
    /\ [](\A c \in Slots : MissedAndReturned(c) =>
            calls[c].f_calls = 1 /\ calls[c].returned = calls[c].response)
    /\ [][\A c \in Slots : Stored(c) /\ Repeated(c) =>
            /\ calls'[c].pc = "done"
            /\ calls'[c].f_calls = 0
            /\ calls'[c].returned = calls[c].returned]_vars

\* C1, amended: the following identical call returns json.loads(json.dumps(R))
\* without invoking f: R itself when R is JSON-native (None, 0, '', [], a
\* dict with str keys), falsy or not, and the list [1, 2] for the tuple (1, 2).
C1_RoundTrip ==
    /\ [](\A c \in Slots : MissedAndReturned(c) =>
            calls[c].f_calls = 1 /\ calls[c].returned = calls[c].response)
    /\ [][\A c \in Slots : Stored(c) /\ Repeated(c) =>
            /\ calls'[c].pc = "done"
            /\ calls'[c].f_calls = 0
            /\ calls'[c].returned = ReadBack(calls[c].returned)]_vars

\* A falsy result ('') was served from the cache without a call of func.
C1_Witness ==
    \E c \in Slots :
        /\ calls[c].pc = "done"
        /\ calls[c].gets # <<>>
        /\ calls[c].f_calls = 0
        /\ calls[c].served = "''"
        /\ calls[c].returned = "''"

\* C2: a call made while the handle of cache.py is None invokes func exactly
\* once with its own arguments, ends as func ended (same result, or same
\* exception), issues no get and no set, logs no store failure, is served
\* nothing from the cache, and no step of it changes the store.
C2_Degradation ==
    /\ [](\A c \in Slots : calls[c].handle = None /\ calls[c].pc # "idle" =>
            /\ calls[c].gets = <<>> /\ calls[c].sets = <<>> /\ calls[c].log = <<>>
            /\ calls[c].served = NoValue
            /\ calls[c].pc \in {"func_direct", "done"}
            /\ calls[c].pc = "done" =>
                 /\ calls[c].f_calls = 1
                 /\ calls[c].f_args = <<calls[c].args, calls[c].kwargs>>
                 /\ calls[c].returned = calls[c].response
                 /\ calls[c].raised = calls[c].f_raised
                 /\ (calls[c].response = NoValue) # (calls[c].f_raised = None))
    /\ [][\A c \in Slots : calls'[c] # calls[c] /\ calls'[c].handle = None =>
            store' = store]_vars

\* With an entry in the store, a call without handle returned a live result
\* that differs from every cached value.
C2_Witness ==
    \E c \in Slots :
        /\ calls[c].pc = "done"
        /\ calls[c].handle = None
        /\ calls[c].returned = "0"
        /\ DOMAIN store # {}
        /\ \A rk \in DOMAIN store : store[rk].res = "None"

\* Exceptions that originate in the store or in the code around it.
StoreOriginated == {"ConnectionError", "AttributeError", "TypeError", "JSONDecodeError"}

\* C3: a call with a handle never ends with a store-originated exception, and
\* one in which the get, the decoding, the encoding or the set failed has
\* invoked func exactly once and ends as func ended.
C3_FailureIsolation ==
    \A c \in Slots :
        /\ calls[c].raised \notin StoreOriginated
        /\ calls[c].pc = "done" /\ calls[c].log # <<>> =>
             /\ calls[c].f_calls = 1
             /\ calls[c].served = NoValue
             /\ calls[c].returned = calls[c].response
             /\ calls[c].raised = calls[c].f_raised

\* Both the get and the set failed and the call returned the result of func.
C3_Witness ==
    \E c \in Slots :
        /\ calls[c].pc = "done"
        /\ calls[c].log = <<"Redis GET failed", "Redis SET failed">>
        /\ calls[c].returned = "{'n': 1}"

\* C4: when func raises, the call ends with that exception, has issued no
\* set, returned nothing, and the step leaves the store as it was; every
\* entry of the store holds the encoding of a value func returned.
C4_FuncFailure ==
    /\ [](\A c \in Slots : calls[c].f_raised # None =>
            /\ calls[c].pc = "done"
            /\ calls[c].raised = calls[c].f_raised
            /\ calls[c].returned = NoValue
            /\ calls[c].sets = <<>>)
    /\ [](\A rk \in DOMAIN store :
            store[rk].res \in Results /\ store[rk].value = JsonDumps(store[rk].res))
    /\ [][\A c \in Slots : calls'[c].f_raised # None /\ calls[c].f_raised = None =>
            store' = store]_vars

\* func raised after a miss on a key that holds nothing.
C4_Witness ==
    \E c \in Slots :
        /\ calls[c].pc = "done"
        /\ calls[c].gets # <<>>
        /\ calls[c].raised = "HTTPException"
        /\ RawOf(calls[c].final_key) \notin DOMAIN store

\* The step is a call of clear_cache that found the handle set and ended
\* without a store failure.
ClearedBy(key, namespace) ==
    /\ clr.pc # "deleting"
    /\ clr' # clr
    /\ clear_redis_cache # None
    /\ clr'.pc = "done"
    /\ clr'.key = key /\ clr'.namespace = namespace
    /\ clr'.swallowed = None /\ clr'.raised = None

\* C5 as claimed: clear_cache(key=k, namespace=n) removes exactly the entry
\* "n:k", clear_cache(key=k) exactly the entry k, each leaving every other
\* entry as it was, and clear_cache() leaves the store empty, for every
\* string k, the empty one included, and every non-empty namespace n.
C5_AsClaimed ==
    [][\A k \in ClearKeys \ {None}, n \in ClearNamespaces \ {None, ""} :
          /\ ClearedBy(k, n) => store' = Drop(store, RawOf(n \o ":" \o k))
          /\ ClearedBy(k, None) => store' = Drop(store, RawOf(k))
          /\ ClearedBy(None, None) => store' = EmptyStore]_vars

\* Keys the handlers of the program write, as the library names them.
AppKeys == {FinalKey(w, inp[1], inp[2]) : w \in app, inp \in SystemInputs}

\* C6 as claimed: when clear_cache(namespace=n) ends, having found the
\* handle and the raw client and met no store failure, and no handler call
\* ran during it, no entry whose key starts with "n:" is left in the store
\* the handlers write to, and the entries outside the namespace are as before.
C6_AsClaimed ==
    [][\A n \in SystemClearNamespaces \ {None} :
          (/\ clr' # clr
           /\ clr'.pc = "done"
           /\ clr'.key = None /\ clr'.namespace = n
           /\ clr'.ops # <<>>
           /\ clr'.swallowed = None /\ clr'.raised = None)
          => \A k \in AppKeys :
                IF StartsWith(k, n \o ":")
                THEN RawOf(k) \notin DOMAIN store'
                ELSE RawOf(k) \in DOMAIN store =>
                        RawOf(k) \in DOMAIN store' /\ store'[RawOf(k)] = store[RawOf(k)]]_vars

\* C7: no exception leaves clear_cache, whatever its arguments and whichever
\* store operation fails; and a call of clear_cache made while the handle of
\* clear.py is None ends at once, issues no store operation and leaves the
\* store as it was.
C7_NeverRaises ==
    /\ [](clr.raised = None)
    /\ [][clear_redis_cache = None /\ clr' # clr =>
            /\ clr'.pc = "done"
            /\ store' = store
            /\ clr'.ops = IF clr.pc = "deleting" THEN clr.ops ELSE <<>>]_vars

\* A delete failed in the middle of a namespace deletion: one enumerated key
\* was deleted, another is still in the store, and clear_cache returned.
C7_Witness ==
    /\ clr.pc = "done"
    /\ clr.swallowed = "ConnectionError"
    /\ clr.raised = None
    /\ Len(clr.ops) = 3
    /\ \E k \in clr.keys_to_delete : RawOf(k) \in DOMAIN store

\* The arguments of a call that count for the key, by the way they are
\* passed: positional ones by position, named ones in their order.
PosComparable(args) ==
    {<<i, args[i]>> : i \in {j \in 1..Len(args) :
                               Params[j] \notin IgnoredNames /\ args[j] # None}}
KwComparable(kwargs) ==
    SelectSeq(kwargs, LAMBDA p : p[1] \notin IgnoredNames /\ p[2] # None)

\* Both keys of the pair have been derived.
Derived == kd.key1 \notin {None, "-"}

\* C8 as claimed: two calls that differ only in arguments named db,
\* s3_client_public, s3_client or qdrant_db, or in arguments whose value is
\* None, passed by name or positionally, get the same key.
C8_AsClaimed ==
    Derived /\ PosComparable(kd.c1[1]) = PosComparable(kd.c2[1])
            /\ KwComparable(kd.c1[2]) = KwComparable(kd.c2[2])
    => kd.key1 = kd.key2

\* C8, amended: two calls with the same positional arguments whose keyword
\* arguments differ only in those named db, s3_client_public, s3_client or
\* qdrant_db, or in those whose value is None (given as None or omitted),
\* get the same key.
C8_NamedOnly ==
    Derived /\ kd.c1[1] = kd.c2[1] /\ KwComparable(kd.c1[2]) = KwComparable(kd.c2[2])
    => kd.key1 = kd.key2

\* f(1, b=1, db=<db1>) and f(1, b=1) were given the same key.
C8_Witness ==
    /\ Derived
    /\ kd.c1 = << <<"1">>, << <<"b", "1">>, <<"db", "<db1>">> >> >>
    /\ kd.c2 = << <<"1">>, << <<"b", "1">> >> >>
    /\ kd.key1 = kd.key2

\* The name/value pairs of the keyword arguments, without their order.
PairSet(kwargs) == {kwargs[i] : i \in 1..Len(kwargs)}

\* C9 as claimed: two calls of one function with the same positional
\* arguments and the same set of keyword name/value pairs get the same key,
\* in whatever order the keyword arguments were passed.
C9_AsClaimed ==
    Derived /\ kd.c1[1] = kd.c2[1] /\ PairSet(kd.c1[2]) = PairSet(kd.c2[2])
    => kd.key1 = kd.key2

\* Whether the setting x counts as configured: any string (literal), or
\* a non-empty one.
Configured(x, literal) == IF literal THEN x # None ELSE x # None /\ x # ""

\* The key a call of handler w must use by C10.
ComposedKey(w, args, kwargs, literal) ==
    LET base == IF Configured(w.key, literal) THEN w.key
                ELSE w.func \o ":" \o Md5Hex12(RawKey(args, kwargs))
    IN  IF Configured(w.namespace, literal) THEN w.namespace \o ":" \o base ELSE base

KeysAre(literal) ==
    \A c \in Slots : calls[c].gets # <<>> =>
        /\ calls[c].gets =
              <<ComposedKey(calls[c].w, calls[c].args, calls[c].kwargs, literal)>>
        /\ calls[c].sets # <<>> => calls[c].sets[1][1] = calls[c].gets[1]

\* C10 as claimed: a configured key, whatever string it is, is the base key,
\* else the base key is "{function name}:{digest}"; a configured namespace,
\* whatever string it is, is prefixed with a colon; get and set use one key.
C10_AsClaimed == KeysAre(TRUE)

\* C10, amended: a configured non-empty key is the base key, else (no key, or
\* the empty string) the base key is "{function name}:{digest}"; a configured
\* non-empty namespace is prefixed with a colon, the empty one is not; get
\* and set of one call use one key.
C10_Composition == KeysAre(FALSE)

\* A call of the handler with key "a" and namespace "ns", made with keyword
\* arguments, read and wrote "ns:a".
C10_Witness ==
    \E c \in Slots :
        /\ calls[c].pc = "done"
        /\ calls[c].w = Handler("f", "a", "ns")
        /\ calls[c].kwargs # <<>>
        /\ calls[c].gets = <<"ns:a">>
        /\ calls[c].sets # <<>>
        /\ calls[c].sets[1][1] = "ns:a"

\* The step begins a call of wrapper in slot c.
Begins(c) == calls[c].pc \in {"idle", "done"} /\ calls'[c] # calls[c]

\* The step begins a call of clear_cache.
ClearBegins == clr.pc \in {"idle", "done"} /\ clr' # clr

\* C11 as claimed: initialize leaves the adapter or None in the handle; and
\* while the last probe has failed (the handle of RedisCacheInit is None), a
\* wrapper call that begins invokes func directly, with no get, and a call
\* of clear_cache that begins issues no store operation and leaves the store
\* as it was.
C11_AsClaimed ==
    /\ [](init_cache \in {Adapter, None})
    /\ [][init_cache = None =>
            /\ \A c \in Slots : Begins(c) =>
                   calls'[c].pc = "func_direct" /\ calls'[c].gets = <<>>
            /\ ClearBegins => clr'.pc = "done" /\ clr'.ops = <<>> /\ store' = store]_vars

\* C14 as claimed: the wrapper sees the store as available exactly when
\* clear_cache does, and no step of a wrapper call or of clear_cache changes
\* a handle.
C14_AsClaimed ==
    /\ []((cache_redis_cache = None) <=> (clear_redis_cache = None))
    /\ [][calls' # calls \/ clr' # clr =>
            /\ cache_redis_cache' = cache_redis_cache
            /\ clear_redis_cache' = clear_redis_cache
            /\ init_cache' = init_cache]_vars

\* Slot c holds a finished call that read its key and found nothing.
Missed(c) ==
    /\ calls[c].pc = "done"
    /\ calls[c].gets # <<>>
    /\ calls[c].served = NoValue

\* The step completes the set of the call in slot c.
Sets(c) ==
    /\ calls[c].pc = "set"
    /\ calls'[c].pc = "done"
    /\ calls'[c].log = calls[c].log

\* C12 as claimed: of two calls on one key that both read a miss (each get
\* came before any set, as nothing else removes entries), each has invoked
\* func once and has written its own result under the key; and each set
\* leaves its call's result in the entry, so that the last one wins.
C12_AsClaimed ==
    /\ [](\A c, d \in Slots :
            c # d /\ Missed(c) /\ Missed(d) /\ calls[c].final_key = calls[d].final_key
            => /\ calls[c].f_calls = 1
               /\ calls[c].sets # <<>>
               /\ calls[c].sets[1][1] = calls[c].final_key
               /\ calls[c].sets[1][2] = JsonDumps(calls[c].response))
    /\ [][\A c \in Slots : Sets(c) =>
            /\ RawOf(calls[c].final_key) \in DOMAIN store'
            /\ store'[RawOf(calls[c].final_key)].res = calls[c].response]_vars

\* C13 as claimed: clear_cache(namespace=n) enumerates the keys in one store
\* step that deletes nothing; each later step deletes one enumerated key,
\* which is then gone from the store, and removes no entry that was not
\* enumerated; a set completed by a handler call in between does not change
\* what clear_cache will delete, so an entry written after the enumeration
\* under a key that was not enumerated survives.
C13_AsClaimed ==
    /\ [][\A n \in SweepNamespaces :
            ClearBegins /\ clr'.namespace = n /\ clr'.key = None =>
               /\ clr'.ops = << <<"keys", n \o ":*">> >>
               /\ store' = store
               /\ clr'.pc = "deleting" =>
                    clr'.keys_to_delete = {rk \in DOMAIN store : StartsWith(rk, n \o ":")}]_vars
    /\ [][clr.pc = "deleting" /\ clr' # clr =>
            /\ \A rk \in DOMAIN store \ clr.keys_to_delete : rk \in DOMAIN store'
            /\ \A k \in clr.pending :
                   (clr'.ops = Append(clr.ops, <<"delete", k>>) /\ clr'.swallowed = None)
                   => k \notin DOMAIN store']_vars
    /\ [][\A c \in Slots : Sets(c) =>
            clr' = clr /\ RawOf(calls[c].final_key) \in DOMAIN store']_vars

\* The step is the return of func in slot c on the miss path, the handle
\* of cache.py still holding the adapter.
FuncReturns(c) ==
    /\ calls[c].pc = "func"
    /\ calls'[c].f_calls = calls[c].f_calls + 1
    /\ calls'[c].f_raised = None
    /\ cache_redis_cache # None

\* C15 as claimed: when func returns a value that cannot be encoded, the
\* wrapper still issues a set under the derived key, with some text standing
\* for the value, and the caller receives the result of func.
C15_AsClaimed ==
    /\ [][\A c \in Slots :
            FuncReturns(c) /\ calls'[c].response = Unserializable =>
               /\ calls'[c].pc = "set"
               /\ calls'[c].sets # <<>>
               /\ calls'[c].sets[1][1] = calls[c].final_key]_vars
    /\ [](\A c \in Slots :
            calls[c].pc = "done" /\ calls[c].response = Unserializable =>
               calls[c].returned = Unserializable /\ calls[c].raised = None)

\* C16 as claimed: every call on the miss path whose func returns issues
\* exactly one set, under the derived key, with the encoded result and the
\* configured ttl; and when that set succeeds the entry under the key is
\* that result with that ttl, whatever was there before.
C16_AsClaimed ==
    /\ [][\A c \in Slots : FuncReturns(c) =>
            /\ calls'[c].pc = "set"
            /\ calls'[c].sets = << <<calls[c].final_key,
                                     JsonDumps(calls'[c].response),
                                     calls[c].w.expire>> >>]_vars
    /\ [](\A c \in Slots : Len(calls[c].sets) <= 1)
    /\ [][\A c \in Slots : Sets(c) =>
            /\ RawOf(calls[c].final_key) \in DOMAIN store'
            /\ store'[RawOf(calls[c].final_key)] =
                  [value |-> JsonDumps(calls[c].response),
                   ttl |-> calls[c].w.expire,
                   res |-> calls[c].response]]_vars

\* clear_cache has returned after one successful delete of the key t.
Deleted(t) ==
    /\ clr.pc = "done"
    /\ clr.ops = << <<"delete", t>> >>
    /\ clr.swallowed = None

\* clear_cache has returned after a successful clear().
ClearedAll ==
    /\ clr.pc = "done"
    /\ clr.ops = << <<"clear", None>> >>
    /\ clr.swallowed = None

\* C17 as claimed, for the key and full-clear modes: where no call begins
\* after clear_cache was called, no func invocation starts after the
\* invalidation began, so once clear_cache has completed there is no entry
\* under the key it deleted (none at all after a full clear): a call that
\* was in flight does not install its result afterwards.
C17_AsClaimed ==
    /\ \A t \in {"a", "ns:a", "other:c"} : Deleted(t) => RawOf(t) \notin DOMAIN store
    /\ ClearedAll => store = EmptyStore

\* C17, amended: clear_cache neither waits for nor changes a call in
\* flight; a call that read its miss before the invalidation and whose func
\* returns an encodable result still issues its set under its key, and when
\* that set succeeds, also after clear_cache has completed, the entry under
\* the key holds that call's result.
C17_Reinstalls ==
    /\ [][clr' # clr => calls' = calls]_vars
    /\ [][\A c \in Slots :
            FuncReturns(c) /\ ~JsonDumpsRaises(calls'[c].response) =>
               /\ calls'[c].pc = "set"
               /\ calls'[c].sets[1][1] = calls[c].final_key]_vars
    /\ [][\A c \in Slots : Sets(c) =>
            /\ RawOf(calls[c].final_key) \in DOMAIN store'
            /\ store'[RawOf(calls[c].final_key)].res = calls[c].response
            /\ store'[RawOf(calls[c].final_key)].value = JsonDumps(calls[c].response)]_vars

\* clear_cache(key="a", namespace="ns") deleted "ns:a" and returned, and the
\* entry is in the store again, holding the result of a call that had read
\* its miss before clear_cache was called.
C17_Witness ==
    /\ Deleted("ns:a")
    /\ RawOf("ns:a") \in DOMAIN store
    /\ \E c \in Slots :
          /\ calls[c].pc = "done"
          /\ calls[c].final_key = "ns:a"
          /\ calls[c].sets # <<>>
          /\ calls[c].log = <<>>
          /\ store[RawOf("ns:a")].res = calls[c].response

\* C18 as claimed: a value served from the cache to a call of a callable
\* was cached by a call of that same callable, for handlers without explicit
\* key, with one namespace setting and the same arguments, two of them
\* having the same function name.
C18_AsClaimed ==
    \A c \in Slots :
        calls[c].served # NoValue => calls[c].served = ResultOf(calls[c].w)

\* C19 as claimed: clear_cache empties the store with clear() only when
\* neither key nor namespace was supplied; a call given a key, whatever string it is, the
\* empty one included, removes at most the one entry that key addresses, and
\* a call given only a namespace removes no entry outside that namespace.
C19_AsClaimed ==
    /\ [][ClearBegins /\ clr'.ops = << <<"clear", None>> >> /\ store' # store =>
            clr'.key = None /\ clr'.namespace = None]_vars
    /\ [][ClearBegins /\ clr'.key # None =>
            Cardinality(DOMAIN store \ DOMAIN store') <= 1]_vars
    /\ [][clr' # clr /\ clr'.key = None /\ clr'.namespace # None =>
            \A rk \in DOMAIN store \ DOMAIN store' :
                StartsWith(rk, RawOf(clr'.namespace \o ":"))]_vars

\* Store operations clear_cache issues.
ClearOps == {"delete", "keys", "clear"}

\* C20: a wrapper call issues at most one get and at most one set, both
\* with the key composed for that call, invokes func at most once, issues no
\* set and does not invoke func when it is served from the cache; a step of
\* a wrapper call removes no entry, leaves every entry under another key and
\* the activation of clear_cache as they were, and leaves the whole store as
\* it was unless it completes a set; clear_cache issues delete, keys and
\* clear only, and a step of it adds no entry, rewrites none, and leaves the
\* wrapper calls as they were.
C20_Frame ==
    /\ [](\A c \in Slots :
            /\ Len(calls[c].gets) <= 1
            /\ Len(calls[c].sets) <= 1
            /\ calls[c].f_calls <= 1
            /\ calls[c].gets # <<>> =>
                 /\ calls[c].gets[1] = calls[c].final_key
                 /\ calls[c].final_key =
                       FinalKey(calls[c].w, calls[c].args, calls[c].kwargs)
            /\ calls[c].sets # <<>> =>
                 calls[c].gets # <<>> /\ calls[c].sets[1][1] = calls[c].gets[1]
            /\ calls[c].served # NoValue =>
                 calls[c].sets = <<>> /\ calls[c].f_calls = 0)
    /\ [](\A i \in 1..Len(clr.ops) : clr.ops[i][1] \in ClearOps)
    /\ [][\A c \in Slots : calls'[c] # calls[c] =>
            /\ clr' = clr
            /\ DOMAIN store \subseteq DOMAIN store'
            /\ \A rk \in DOMAIN store :
                   rk # RawOf(calls'[c].final_key) => store'[rk] = store[rk]
            /\ \A rk \in DOMAIN store' \ DOMAIN store :
                   rk = RawOf(calls'[c].final_key)
            /\ ~Sets(c) => store' = store]_vars
    /\ [][clr' # clr =>
            /\ calls' = calls
            /\ DOMAIN store' \subseteq DOMAIN store
            /\ \A rk \in DOMAIN store' : store'[rk] = store[rk]]_vars

\* A call was served from the cache, with no set and no call of func, while
\* the store holds entries under other keys too, after a clear_cache that
\* issued store operations.
C20_Witness ==
    /\ clr.pc = "done"
    /\ clr.ops # <<>>
    /\ Cardinality(DOMAIN store) >= 2
    /\ \E c \in Slots :
          /\ calls[c].pc = "done"
          /\ calls[c].served # NoValue
          /\ calls[c].gets # <<>>
          /\ calls[c].sets = <<>>
          /\ calls[c].f_calls = 0

====
